---- MODULE Spec2Model ----
(***************************************************************************)
(* State-machine model of the CSM UI client (components/tts-interface.tsx) *)
(* and of the request handlers it talks to (pages/api/generate,            *)
(* pages/api/check-audio, pages/api/audio-proxy).                          *)
(*                                                                         *)
(* React state is modelled by one variable per useState cell.  An async    *)
(* handler is modelled by one record per invocation that holds the values  *)
(* its closure captured and its position (pc); every await is a step.      *)
(* Optional values (T | null) are sequences of length 0 or 1.              *)
(***************************************************************************)
EXTENDS Integers, Sequences, FiniteSets, TLC

\* ---------------------------------------------------------------- bounds
\* generateSpeech invocations in the full program (Spec)
MaxRequests == 1
\* generateSpeech invocations where only submissions are followed (SpecBusy)
MaxBusyRequests == 2
\* clips captured in the upload dialog
MaxUploads == 1
\* fetchAudioBuffer invocations of the resolver on its own (SpecResolve)
MaxCalls == 2
\* characters of the filename query parameter (SpecPath)
MaxFilenameLen == 7
\* saved sessions in the list (SpecSession)
MaxSessions == 1
\* saved sessions in the list (SpecStorage)
MaxStoredSessions == 2
\* values of Date.now()
MaxTime == 2
\* clips submitted to /api/transcribe from the upload dialog (SpecTranscribe)
MaxClips == 2
\* requests handled by the transcribe endpoint (SpecEndpoint)
MaxTranscribeJobs == 2
\* load() calls of the audio element followed for one artifact (SpecPlayback)
MaxPlaybackLoads == 5
\* requests handled by the generate endpoint (SpecGenerate)
MaxGenerateJobs == 2

\* ------------------------------------------------------- input alphabets
Names == {"A", "B"}
NameInputs == Names \cup {""}
Speakers == {0, 1}
Texts == {<<>>, <<" ">>, <<"h">>}

\* Kinds of content of a file in public/audio.
FileKinds == {"missing", "empty", "badheader", "wav"}

\* Outcomes of one HTTP fetch as the client sees it.
FetchOutcomes == {"ok", "notok", "neterr"}

AudioUrl(n) == [scheme |-> "audio", id |-> n]
BlobUrl(n) == [scheme |-> "blob", id |-> n]
\* One artifact per generateSpeech invocation (uuidv4 in the generate handler).
MaxArtifacts == IF MaxBusyRequests > MaxRequests THEN MaxBusyRequests ELSE MaxRequests
AudioUrls == {AudioUrl(n) : n \in 1..MaxArtifacts}

VARIABLES
  inputText, selectedSpeaker,
  contexts, activeContext,
  isProcessing, audioUrl, audioData,
  uploadedAudio, uploadAudioUrl, uploadAudioData, nextBlob,
  audioCache, files,
  requests, calls,
  lastToast,
  stored,
  filename, filePath,
  maxAudioLength, temperature, topK,
  localText, currentSessionName,
  savedSessions, storedSessions,
  storageFull, saveReport,
  clips, transcribeJobs,
  player, generateJobs

vars == <<inputText, selectedSpeaker, contexts, activeContext, isProcessing,
          audioUrl, audioData, uploadedAudio, uploadAudioUrl, uploadAudioData,
          nextBlob, audioCache, files, requests, calls, lastToast, stored,
          filename, filePath, maxAudioLength, temperature, topK, localText,
          currentSessionName, savedSessions, storedSessions, storageFull,
          saveReport, clips,
                 transcribeJobs, player, generateJobs>>

settingsVars == <<inputText, selectedSpeaker>>
contextVars == <<contexts, activeContext>>
uploadVars == <<uploadedAudio, uploadAudioUrl, uploadAudioData, nextBlob>>
genVars == <<isProcessing, audioUrl, audioData, requests>>
cacheVars == <<audioCache, calls>>
pathVars == <<filename, filePath>>
sessionVars == <<maxAudioLength, temperature, topK, savedSessions,
                 storedSessions, storageFull>>

\* ------------------------------------------------------------- helpers
\* lastToast is the level of the toast shown last (toast.error / .warning /
\* .success), "none" before the first.
Report(level) == level
NoReport == "none"

IsSpace(c) == c = " "

RECURSIVE TrimStart(_)
TrimStart(s) ==
  IF s # <<>> /\ IsSpace(Head(s)) THEN TrimStart(Tail(s)) ELSE s

RECURSIVE TrimEnd(_)
TrimEnd(s) ==
  IF s # <<>> /\ IsSpace(s[Len(s)]) THEN TrimEnd(SubSeq(s, 1, Len(s) - 1)) ELSE s

\* String.prototype.trim
Trim(s) == TrimEnd(TrimStart(s))

\* contexts.find(ctx => ctx.name === name), as an optional
FindContext(ctxs, name) ==
  LET idx == {i \in DOMAIN ctxs : ctxs[i].name = name}
  IN IF idx = {} THEN <<>>
     ELSE <<ctxs[CHOOSE i \in idx : \A j \in idx : i <= j]>>

\* contexts.some(ctx => ctx.name === name)
\* contexts.some(...) that finds nothing.
SomeContextNever(ctxs, name) == FALSE

SomeContext(ctxs, name) == \E i \in DOMAIN ctxs : ctxs[i].name = name

\* contexts.filter(ctx => ctx.name !== name)
RECURSIVE FilterOut(_, _)
\* A filter that drops the first context whatever its name.
FilterOutHead(ctxs, name) ==
  IF ctxs = <<>> THEN <<>> ELSE Tail(ctxs)

FilterOut(ctxs, name) ==
  IF ctxs = <<>> THEN <<>>
  ELSE IF Head(ctxs).name = name THEN FilterOut(Tail(ctxs), name)
       ELSE <<Head(ctxs)>> \o FilterOut(Tail(ctxs), name)

\* contexts.map(ctx => ctx.name === name ? {...ctx, segments: [...ctx.segments, seg]} : ctx)
AppendSegment(ctxs, name, seg) ==
  [i \in DOMAIN ctxs |->
     IF ctxs[i].name = name
     THEN [ctxs[i] EXCEPT !.segments = Append(@, seg)]
     ELSE ctxs[i]]

Segment(speaker, text, audio, audioPath) ==
  [speaker |-> speaker, text |-> text, audio |-> audio, audioPath |-> audioPath]

\* -------------------------------------------------- decoded sample data
SampleRate == 24000
DecodeFailDuration == 5
UnreachableDuration == 3

\* channel 0 of the decoded artifact: a function of the (immutable) artifact
Decoded(url) == [kind |-> "decoded", of |-> url]

\* 0.5 * sin(2 pi 440 t) * (0.6 + 0.4 sin(2 pi 0.5 t)), sampleRate * duration samples
DecodeFailPlaceholder ==
  [kind |-> "placeholder", samples |-> SampleRate * DecodeFailDuration,
   frequency |-> 440, amplitudePct |-> 50, modulated |-> TRUE]

\* 0.25 * sin(2 pi 220 t), 24000 * 3 samples
UnreachablePlaceholder ==
  [kind |-> "placeholder", samples |-> SampleRate * UnreachableDuration,
   frequency |-> 220, amplitudePct |-> 25, modulated |-> FALSE]

\* ------------------------------------------------ server: /api/generate
\* What the synthesis process did: its exit status, the file it left at the
\* output path, and whether it wrote to stderr / printed "Warning:" on stdout.
ExecOutcomes ==
  [error : BOOLEAN, file : FileKinds, stderr : BOOLEAN, stdoutWarning : BOOLEAN]

Response(status, url, warnings) ==
  [status |-> status, audioUrl |-> url, warnings |-> warnings]

FileExists(kind) == kind # "missing"
FileSizePositive(kind) == kind \in {"badheader", "wav"}

\* A generate handler that answers 500 whenever the process exits with an error.
GenerateHandlerStrict(body, audioId, exec) ==
  IF body.text = <<>> THEN Response(400, <<>>, "null")
  ELSE IF exec.error THEN Response(500, <<>>, "null")
  ELSE IF ~FileExists(exec.file) THEN Response(500, <<>>, "null")
  ELSE IF ~FileSizePositive(exec.file) THEN Response(500, <<>>, "null")
  ELSE Response(200, <<AudioUrl(audioId)>>,
                IF exec.stdoutWarning \/ exec.stderr THEN "text" ELSE "null")

\* The exec callback of the generate handler.
GenerateHandler(body, audioId, exec) ==
  IF body.text = <<>> THEN Response(400, <<>>, "null")
  ELSE IF exec.error
  THEN IF FileExists(exec.file) /\ FileSizePositive(exec.file)
       THEN Response(200, <<AudioUrl(audioId)>>,
                     "text")
       ELSE Response(500, <<>>, "null")
  ELSE IF ~FileExists(exec.file) THEN Response(500, <<>>, "null")
  ELSE IF ~FileSizePositive(exec.file) THEN Response(500, <<>>, "null")
  ELSE Response(200, <<AudioUrl(audioId)>>,
                IF exec.stdoutWarning \/ exec.stderr THEN "text" ELSE "null")

ResponseOk(resp) == resp.status >= 200 /\ resp.status <= 299

\* --------------------------------------------- server: /api/check-audio
\* ioError: statSync/openSync/readSync threw (the handler's catch answers 500).
CheckAudioHandler(kind, ioError) ==
  IF ~FileExists(kind)
  THEN [status |-> 404, exists |-> FALSE, isReadable |-> FALSE, isValidWav |-> FALSE]
  ELSE IF ioError
  THEN [status |-> 500, exists |-> FALSE, isReadable |-> FALSE, isValidWav |-> FALSE]
  ELSE [status |-> 200, exists |-> TRUE,
        isReadable |-> FileSizePositive(kind),
        isValidWav |-> (kind = "wav")]

\* ------------------------------------- server: the filename parameter
\* filename is the query parameter of a request to /api/audio-proxy or
\* /api/check-audio (<<>> while there is none), a string of characters;
\* filePath is the path the handler goes on to open (<<>> before), a list of
\* segments below the project root.
PathChars == {"/", ".", "a"}
Filenames == UNION {[1..n -> PathChars] : n \in 1..MaxFilenameLen}

RECURSIVE DropTrailingSlashes(_)
DropTrailingSlashes(s) ==
  IF s # <<>> /\ s[Len(s)] = "/"
  THEN DropTrailingSlashes(SubSeq(s, 1, Len(s) - 1))
  ELSE s

RECURSIVE AfterLastSlash(_)
AfterLastSlash(s) ==
  IF s = <<>> \/ s[Len(s)] = "/" THEN <<>>
  ELSE Append(AfterLastSlash(SubSeq(s, 1, Len(s) - 1)), s[Len(s)])

\* path.basename: trailing separators dropped, then what follows the last
\* separator.
Basename(path) == AfterLastSlash(DropTrailingSlashes(path))

\* path.join(projectRoot, 'public', 'audio')
AudioDir == << <<"p", "u", "b", "l", "i", "c">>, <<"a", "u", "d", "i", "o">> >>

\* path.normalize on a list of segments: "." is dropped, ".." takes the
\* segment before it away.
RECURSIVE Normalize(_)
Normalize(segments) ==
  IF segments = <<>> THEN <<>>
  ELSE LET init == Normalize(SubSeq(segments, 1, Len(segments) - 1))
           last == segments[Len(segments)]
       IN IF last = <<".">> THEN init
          ELSE IF last = <<".", ".">>
          THEN IF init = <<>> THEN <<>> ELSE SubSeq(init, 1, Len(init) - 1)
          ELSE Append(init, last)

\* path.join(dir, name): zero-length arguments are skipped, the result is
\* normalized.
PathJoin(dir, name) ==
  Normalize(IF name = <<>> THEN dir ELSE Append(dir, name))

\* const sanitizedFilename = path.basename(filename);
\* const filePath = path.join(audioDir, sanitizedFilename);
FilePath(name) == PathJoin(AudioDir, Basename(name))

\* --------------------------------------------- server: /api/audio-proxy
AudioProxyHandler(kind, ioError) ==
  IF ~FileExists(kind) THEN 404
  ELSE IF ioError THEN 500
  ELSE 200

\* ------------------------------------------------------------- CLIENT
\* ------------------------------------------------------ fetchAudioBuffer
\* One record per invocation.  pc is the await the invocation is suspended at:
\*   "direct"  fetch(directUrl)          "proxy"  fetch(proxyUrl)
\*   "decode"  response.arrayBuffer() and decodeAudioData
\*   "probe"   the HEAD request of the catch block
\*   "returned"  "threw" (the promise rejected)
\* error is the exception the outer catch block caught ("none" before):
\*   "retrieval"  both fetches failed      "empty"  zero bytes received
\*   "decode"     decodeAudioData rejected
\* head is headResponse.ok once the probe has settled: "ok", "failed" (a
\* non-ok status or a rejected fetch), "none" before.
\* fetches lists the GET requests the invocation has made so far, in order:
\* the path fetched ("direct", "proxy") and how the fetch ended.
Call(url, pc, result) ==
  [url |-> url, pc |-> pc, result |-> result, error |-> "none", head |-> "none",
   fetches |-> <<>>]

Fetch(path, outcome) == [path |-> path, outcome |-> outcome]

\* error, head and fetches are the history of an invocation, which the code
\* only logs.  It is kept for the invocations made on their own; an
\* invocation awaited by generateSpeech keeps what generateSpeech reads, the
\* result.
Owned(c) == \E r \in DOMAIN requests : requests[r].call = c

Noted(c, new, old) == IF Owned(c) THEN old ELSE new

\* How a fetch ended, from whether it rejected and the status answered.
FetchOutcome(netError, status) ==
  IF netError THEN "neterr"
  ELSE IF status >= 200 /\ status <= 299 THEN "ok" ELSE "notok"

\* A returned invocation whose caller has taken the result.
Awaited(call) == Call(call.url, "returned", call.result)

\* A cache that is never consulted.
CacheHitNever(cache, url) == FALSE

\* if (audioCache[url]) return audioCache[url];  -- a Float32Array is truthy
CacheHit(cache, url) == cache[url] # <<>>

\* The synchronous prefix of fetchAudioBuffer: the cache check, then the
\* (always resolving) debugAudioElement and the direct fetch are issued.
FetchAudioBufferStart(cache, url) ==
  IF CacheHit(cache, url)
  THEN Call(url, "returned", cache[url])
  ELSE Call(url, "direct", <<>>)

\* A static file or the proxy can answer 2xx only for a file that exists.
DirectOutcomes(kind) ==
  IF FileExists(kind) THEN FetchOutcomes ELSE FetchOutcomes \ {"ok"}

\* A direct fetch whose non-ok answer is taken for the artifact.
AfterDirectIgnoresStatus(outcome) == IF outcome = "neterr" THEN "proxy" ELSE "decode"

\* After the direct fetch: response.ok goes on to the body; a rejected fetch
\* or a non-ok status is caught and the proxy URL is fetched.
AfterDirect(outcome) == IF outcome = "ok" THEN "decode" ELSE "proxy"

\* A proxy fetch outside any try block: its rejection leaves the function.
AfterProxyRethrows(netError, status) ==
  IF netError THEN "threw"
  ELSE IF status >= 200 /\ status <= 299 THEN "decode" ELSE "probe"

\* After the proxy fetch: a rejected fetch or a non-ok status throws to the
\* outer catch.
AfterProxy(netError, status) ==
  IF ~netError /\ status >= 200 /\ status <= 299 THEN "decode" ELSE "probe"

\* arrayBuffer.byteLength === 0 throws before decoding; decodeAudioData can
\* succeed or reject on any bytes.
CanDecode(kind) == FileSizePositive(kind)

\* audioCache[url] = channelData / audioCache[url] = placeholderData
CacheResultDropped(cache, url, data) == cache

\* A cache that keeps the last entry only.
CacheResultEvicts(cache, url, data) ==
  [u \in DOMAIN cache |-> IF u = url THEN <<data>> ELSE <<>>]

CacheResult(cache, url, data) == [cache EXCEPT ![url] = <<data>>]

\* A catch block that answers the short placeholder whatever the probe says.
ProbeResultShort(outcome) == UnreachablePlaceholder

\* The outer catch block once the HEAD request has settled.
ProbeResult(outcome) ==
  IF outcome = "ok" THEN DecodeFailPlaceholder ELSE UnreachablePlaceholder

\* A HEAD request outside any try block: its rejection leaves the function.
AfterProbeRethrows(outcome) == IF outcome = "neterr" THEN "threw" ELSE "returned"

\* After the HEAD request: a rejected fetch is caught by the inner catch and
\* the function falls through to its last-resort return.
AfterProbe(outcome) == "returned"

\* A catch block that stores no placeholder.
ProbeCachesNever(outcome) == FALSE

\* Whether the catch block stores its result in audioCache.
ProbeCaches(outcome) == outcome = "ok"

\* toast.warning("Audio visualization may not be accurate, ...") after a
\* successful probe, toast.warning("Audio visualization not available, ...")
\* otherwise.
ProbeReport(outcome) == Report("warning")

CallDirect(c) ==
  /\ c \in DOMAIN calls
  /\ calls[c].pc = "direct"
  /\ \E outcome \in DirectOutcomes(files[calls[c].url]) :
       calls' = [calls EXCEPT
                   ![c].pc = AfterDirect(outcome),
                   ![c].fetches = Noted(c, Append(@, Fetch("direct", outcome)), @)]
  /\ UNCHANGED <<settingsVars, contextVars, uploadVars, genVars, audioCache,
                 files, lastToast>>
  /\ UNCHANGED <<stored, pathVars, sessionVars, localText, currentSessionName,
                 saveReport, clips,
                 transcribeJobs, player, generateJobs>>

CallProxy(c) ==
  /\ c \in DOMAIN calls
  /\ calls[c].pc = "proxy"
  /\ \E netError \in BOOLEAN, ioError \in BOOLEAN :
       LET status == AudioProxyHandler(files[calls[c].url], ioError)
           next == AfterProxy(netError, status)
       IN calls' = [calls EXCEPT
                      ![c].pc = next,
                      ![c].fetches =
                         Noted(c, Append(@, Fetch("proxy",
                                            FetchOutcome(netError, status))), @),
                      ![c].error = IF next = "probe"
                                   THEN Noted(c, "retrieval", @) ELSE @]
  /\ UNCHANGED <<settingsVars, contextVars, uploadVars, genVars, audioCache,
                 files, lastToast>>
  /\ UNCHANGED <<stored, pathVars, sessionVars, localText, currentSessionName,
                 saveReport, clips,
                 transcribeJobs, player, generateJobs>>

CallDecode(c) ==
  /\ c \in DOMAIN calls
  /\ calls[c].pc = "decode"
  /\ \E decodes \in BOOLEAN :
       LET url == calls[c].url
       IN IF CanDecode(files[url]) /\ decodes
          THEN /\ audioCache' = CacheResult(audioCache, url, Decoded(url))
               /\ calls' = [calls EXCEPT ![c].pc = "returned",
                                         ![c].result = <<Decoded(url)>>]
          ELSE /\ calls' = [calls EXCEPT
                             ![c].pc = "probe",
                             ![c].error = IF FileSizePositive(files[url])
                                          THEN Noted(c, "decode", @)
                                          ELSE Noted(c, "empty", @)]
               /\ UNCHANGED audioCache
  /\ UNCHANGED <<settingsVars, contextVars, uploadVars, genVars, files, lastToast>>
  /\ UNCHANGED <<stored, pathVars, sessionVars, localText, currentSessionName,
                 saveReport, clips,
                 transcribeJobs, player, generateJobs>>

CallProbe(c) ==
  /\ c \in DOMAIN calls
  /\ calls[c].pc = "probe"
  /\ \E outcome \in DirectOutcomes(files[calls[c].url]) :
       LET url == calls[c].url
       IN /\ calls' = [calls EXCEPT ![c].pc = AfterProbe(outcome),
                                    ![c].result = <<ProbeResult(outcome)>>,
                                    ![c].head = IF outcome = "ok"
                                                THEN Noted(c, "ok", @)
                                                ELSE Noted(c, "failed", @)]
          /\ audioCache' = IF ProbeCaches(outcome)
                           THEN CacheResult(audioCache, url, ProbeResult(outcome))
                           ELSE audioCache
          /\ lastToast' = ProbeReport(outcome)
  /\ UNCHANGED <<settingsVars, contextVars, uploadVars, genVars, files>>
  /\ UNCHANGED <<stored, pathVars, sessionVars, localText, currentSessionName,
                 saveReport, clips,
                 transcribeJobs, player, generateJobs>>

\* ------------------------------------------------------------ persistence
\* stored is the item csm-contexts of localStorage: <<>> while there is none.
\* storeContexts writes the contexts without the audio data.
\* A storable form that keeps the decoded audio of the segments.
StorableWithAudio(ctxs) ==
  [i \in DOMAIN ctxs |->
     [name |-> ctxs[i].name,
      segments |-> [j \in DOMAIN ctxs[i].segments |->
                      [speaker |-> ctxs[i].segments[j].speaker,
                       text |-> ctxs[i].segments[j].text,
                       audioPath |-> ctxs[i].segments[j].audioPath,
                       audio |-> ctxs[i].segments[j].audio]]]]

\* storableContexts of storeContexts
Storable(ctxs) ==
  [i \in DOMAIN ctxs |->
     [name |-> ctxs[i].name,
      segments |-> [j \in DOMAIN ctxs[i].segments |->
                      [speaker |-> ctxs[i].segments[j].speaker,
                       text |-> ctxs[i].segments[j].text,
                       audioPath |-> ctxs[i].segments[j].audioPath]]]]

\* JSON.stringify of a storable list: a member whose value is undefined (an
\* audioPath that is not there) is left out, every other member is written
\* with its value.  The text is kept as the parsed structure it denotes.
JsonSegment(segment) ==
  IF segment.audioPath = <<>>
  THEN [k \in DOMAIN segment \ {"audioPath"} |-> segment[k]]
  ELSE [k \in DOMAIN segment |->
          IF k = "audioPath" THEN segment.audioPath[1] ELSE segment[k]]

JsonStringify(storable) ==
  [i \in DOMAIN storable |->
     [name |-> storable[i].name,
      segments |-> [j \in DOMAIN storable[i].segments |->
                      JsonSegment(storable[i].segments[j])]]]

\* loadedContexts of the load effect, from JSON.parse of what was stored:
\* segment.audioPath reads undefined where the member is missing, audio is null.
LoadedContexts(parsedContexts) ==
  [i \in DOMAIN parsedContexts |->
     [name |-> parsedContexts[i].name,
      segments |-> [j \in DOMAIN parsedContexts[i].segments |->
                      LET segment == parsedContexts[i].segments[j]
                      IN Segment(segment.speaker, segment.text, <<>>,
                                 IF "audioPath" \in DOMAIN segment
                                 THEN <<segment.audioPath>> ELSE <<>>)]]]

\* useEffect(() => { if (contexts.length > 0) storeContexts(contexts) }, [contexts]):
\* runs after the render in which contexts changed.
\* localStorage.setItem throws when storageFull (the quota is exceeded) and
\* leaves the key as it was; storeContexts catches it and reports an error.
\* saveReport is the report of the last call of storeContexts or
\* storeSessions: "none" when it wrote, "error" when it could not.
SaveContextsEffect(old, new, store) ==
  IF new # old /\ Len(new) > 0 /\ ~storageFull
  THEN <<JsonStringify(Storable(new))>>
  ELSE store

SaveContextsReport(old, new, report) ==
  IF new # old /\ Len(new) > 0
  THEN IF storageFull THEN Report("error") ELSE NoReport
  ELSE report

\* ---------------------------------------------- the text of AudioInput
\* The AudioInput of the Generate tab keeps its own text (localText); its effect
\*   useEffect(() => { if (onTextChange) onTextChange(text) }, [text, onTextChange])
\* runs after every render of TTSInterface while the tab is shown, because
\* onTextChange is a new arrow function at each render, and calls
\* setInputTextAndClearSession(text): inputText becomes the component's text
\* and the current session name is cleared.
OnTextChange(audioInputText) == audioInputText
ClearSession == <<>>

\* -------------------------------------------------------- generateSpeech
\* One record per invocation.  text, speaker, contexts and activeContext are
\* the values of the render whose closure was invoked; pc is the state of the
\* request:
\*   "AwaitingBackend"     await fetch('/api/generate')
\*   "ValidatingArtifact"  await fetch('/api/check-audio')
\*   "ResolvingAudio"      await fetchAudioBuffer(generatedAudioUrl)
\*   "Complete" / "Errored"
\* retry tells whether the invocation has set the timer of the retry
\* (setTimeout(..., 1000) in the else branch of if (audioBuffer)).
\* Locals are kept only as long as the code still reads them: body until the
\* request is answered, response and execError (what the synthesis process
\* did) until the artifact check is answered.
NoResponse == Response(0, <<>>, "null")
NoBody == [text |-> <<>>, speaker |-> 0, context |-> <<>>]

\* activeContext ? activeContext.segments.map(({text, speaker, audioPath}) => ...) : []
\* A payload whose entries carry the segments' decoded audio too.
ContextDataWithAudio(active) ==
  IF active = <<>> THEN <<>>
  ELSE [i \in DOMAIN active[1].segments |->
          [text |-> active[1].segments[i].text,
           speaker |-> active[1].segments[i].speaker,
           audioPath |-> active[1].segments[i].audioPath,
           audio |-> active[1].segments[i].audio]]

\* contextData of generateSpeech: one entry per segment of the active context
ContextData(active) ==
  IF active = <<>> THEN <<>>
  ELSE [i \in DOMAIN active[1].segments |->
          [text |-> active[1].segments[i].text,
           speaker |-> active[1].segments[i].speaker,
           audioPath |-> active[1].segments[i].audioPath]]

\* contexts is read by the invocation only under if (activeContext): with no
\* active context captured, the captured list is dead and not kept.
Request(text, speaker, ctxs, active) ==
  [text |-> text, speaker |-> speaker,
   contexts |-> IF active = <<>> THEN <<>> ELSE ctxs,
   activeContext |-> active,
   body |-> [text |-> text, speaker |-> speaker, context |-> ContextData(active)],
   pc |-> "AwaitingBackend", response |-> NoResponse, execError |-> FALSE,
   generatedAudioUrl |-> <<>>, call |-> 0, retry |-> FALSE]

\* A settled invocation: no local is read any more.
Settled(pc) ==
  [text |-> <<>>, speaker |-> 0, contexts |-> <<>>, activeContext |-> <<>>,
   body |-> NoBody, pc |-> pc, response |-> NoResponse, execError |-> FALSE,
   generatedAudioUrl |-> <<>>, call |-> 0, retry |-> FALSE]

\* A Generate Speech button that is never disabled.
GenerateDisabledNever == FALSE

\* The Generate Speech button: disabled={isProcessing}
GenerateDisabled == isProcessing

\* A check that lets text made of spaces through.
InputRejectedWhenEmpty(text) == text = <<>>

\* if (!inputText.trim()) { toast.error(...); return; }
InputRejected(text) == Trim(text) = <<>>

InFlight(r) ==
  requests[r].pc \in {"AwaitingBackend", "ValidatingArtifact", "ResolvingAudio"}

GenerateSpeech ==
  /\ ~GenerateDisabled
  /\ IF InputRejected(inputText)
     THEN /\ lastToast' = Report("error")
          /\ UNCHANGED genVars
     ELSE /\ isProcessing' = TRUE
          /\ requests' = Append(requests,
                Request(inputText, selectedSpeaker, contexts, activeContext))
          /\ UNCHANGED <<audioUrl, audioData, lastToast>>
  /\ currentSessionName' =
       IF InputRejected(inputText) THEN currentSessionName ELSE ClearSession
  /\ UNCHANGED <<settingsVars, contextVars, uploadVars, cacheVars, files>>
  /\ UNCHANGED <<stored, pathVars, sessionVars, localText, saveReport, clips,
                 transcribeJobs, player, generateJobs>>

\* A catch block that puts back the contexts the invocation captured.
ErrorPathRestores(req) ==
  [contexts |-> req.contexts, activeContext |-> req.activeContext,
   isProcessing |-> FALSE, toast |-> Report("error")]

\* A failure path without the finally block.
ErrorPathStaysBusy(req) ==
  [contexts |-> contexts, activeContext |-> activeContext,
   isProcessing |-> isProcessing, toast |-> Report("error")]

\* What the catch and finally blocks of generateSpeech leave behind:
\* toast.error(...), setIsProcessing(false), and no call of setContexts or
\* setActiveContext.
ErrorPath(req) ==
  [contexts |-> contexts, activeContext |-> activeContext,
   isProcessing |-> FALSE, toast |-> Report("error")]

\* The generate endpoint runs the synthesis process and answers; the client
\* resumes after await fetch / await response.json().  A failure goes through
\* catch (toast.error) and finally (setIsProcessing(false)).
BackendResponds(r) ==
  /\ r \in DOMAIN requests
  /\ requests[r].pc = "AwaitingBackend"
  /\ \/ \* fetch rejects: nothing reached the server
        /\ requests' = [requests EXCEPT ![r] = Settled("Errored")]
        /\ contexts' = ErrorPath(requests[r]).contexts
        /\ activeContext' = ErrorPath(requests[r]).activeContext
        /\ isProcessing' = ErrorPath(requests[r]).isProcessing
        /\ lastToast' = ErrorPath(requests[r]).toast
        /\ UNCHANGED <<audioUrl, files>>
     \/ \E exec \in ExecOutcomes :
          LET resp == GenerateHandler(requests[r].body, r, exec)
          IN /\ files' = IF resp.status = 400 THEN files
                         ELSE [files EXCEPT ![AudioUrl(r)] = exec.file]
             /\ IF ~ResponseOk(resp)
                THEN /\ requests' = [requests EXCEPT ![r] = Settled("Errored")]
                     /\ contexts' = ErrorPath(requests[r]).contexts
                     /\ activeContext' = ErrorPath(requests[r]).activeContext
                     /\ isProcessing' = ErrorPath(requests[r]).isProcessing
                     /\ lastToast' = ErrorPath(requests[r]).toast
                     /\ UNCHANGED audioUrl
                ELSE /\ requests' = [requests EXCEPT
                            ![r].response = resp,
                            ![r].execError = exec.error,
                            ![r].generatedAudioUrl = resp.audioUrl,
                            ![r].body = NoBody,
                            ![r].pc = "ValidatingArtifact"]
                     /\ audioUrl' = resp.audioUrl
                     /\ lastToast' = IF resp.warnings # "null"
                                     THEN Report("warning") ELSE lastToast
                     /\ UNCHANGED <<isProcessing, contextVars>>
  /\ UNCHANGED <<settingsVars, uploadVars, cacheVars, audioData>>
  /\ stored' = SaveContextsEffect(contexts, contexts', stored)
  /\ saveReport' = SaveContextsReport(contexts, contexts', saveReport)
  /\ UNCHANGED <<pathVars, sessionVars, localText, currentSessionName, clips,
                 transcribeJobs, player, generateJobs>>

\* What the client concludes from the check-audio answer:
\*   checkData.exists && checkData.isReadable ? (log) : toast.error(...)
\* a rejected fetch or an unparsable answer is caught and only logged.
CheckVerdict(netError, checkData) ==
  IF netError THEN "threw"
  ELSE IF checkData.exists /\ checkData.isReadable THEN "validated"
  ELSE "failed"

\* The check-audio answer has arrived; whatever the verdict, generateSpeech
\* goes on to fetchAudioBuffer(generatedAudioUrl), whose cache check runs at once.
ValidateArtifact(r) ==
  /\ r \in DOMAIN requests
  /\ requests[r].pc = "ValidatingArtifact"
  /\ \E netError \in BOOLEAN, ioError \in BOOLEAN :
       LET url == requests[r].generatedAudioUrl[1]
           verdict == CheckVerdict(netError, CheckAudioHandler(files[url], ioError))
       IN /\ calls' = Append(calls, FetchAudioBufferStart(audioCache, url))
          /\ requests' = [requests EXCEPT
                ![r].response = NoResponse,
                ![r].execError = FALSE,
                ![r].pc = "ResolvingAudio",
                ![r].call = Len(calls) + 1]
          /\ lastToast' = IF verdict = "failed" THEN Report("error") ELSE lastToast
  /\ UNCHANGED <<settingsVars, contextVars, uploadVars, isProcessing, audioUrl,
                 audioData, audioCache, files>>
  /\ UNCHANGED <<stored, pathVars, sessionVars, localText, currentSessionName,
                 saveReport, clips,
                 transcribeJobs, player, generateJobs>>

\* The segment generateSpeech appends.
NewSegment(req) ==
  Segment(req.speaker, req.text, <<>>, req.generatedAudioUrl)

\* The contexts generateSpeech hands to setContexts.
\* The updated context put at the end of the list instead of in the place of
\* the one it updates.
UpdatedContextsAppends(req) ==
  Append(req.contexts,
         [name |-> req.activeContext[1].name,
          segments |-> Append(req.activeContext[1].segments, NewSegment(req))])

UpdatedContexts(req) ==
  AppendSegment(req.contexts, req.activeContext[1].name, NewSegment(req))

\* if (audioBuffer): a Float32Array, of whatever length, is truthy.
Truthy(audioBuffer) == audioBuffer # <<>>

\* fetchAudioBuffer has resolved: visualization (or the retry timer), success
\* report, append.
CompleteGeneration(r) ==
  /\ r \in DOMAIN requests
  /\ requests[r].pc = "ResolvingAudio"
  /\ calls[requests[r].call].pc \in {"returned", "threw"}
  /\ LET req == requests[r]
         updated == UpdatedContexts(req)
         updatedActive == FindContext(updated, req.activeContext[1].name)
         audioBuffer == calls[req.call].result
     IN IF calls[req.call].pc = "threw"
        THEN \* the await rethrows into catch / finally
             /\ requests' = [requests EXCEPT ![r] = Settled("Errored")]
             /\ contexts' = ErrorPath(req).contexts
             /\ activeContext' = ErrorPath(req).activeContext
             /\ isProcessing' = ErrorPath(req).isProcessing
             /\ lastToast' = ErrorPath(req).toast
             /\ UNCHANGED <<audioData, calls>>
        ELSE /\ audioData' = IF Truthy(audioBuffer) THEN audioBuffer ELSE audioData
             /\ requests' = [requests EXCEPT
                               ![r] = [Settled("Complete") EXCEPT
                                         !.retry = ~Truthy(audioBuffer)]]
             /\ lastToast' = Report("success")
             /\ IF req.activeContext # <<>>
                THEN /\ contexts' = updated
                     /\ activeContext' = IF updatedActive # <<>> THEN updatedActive
                                         ELSE activeContext
                ELSE UNCHANGED contextVars
             /\ calls' = [calls EXCEPT ![req.call] = Awaited(@)]
             /\ isProcessing' = FALSE
  /\ UNCHANGED <<settingsVars, uploadVars, audioUrl, audioCache, files>>
  /\ stored' = SaveContextsEffect(contexts, contexts', stored)
  /\ saveReport' = SaveContextsReport(contexts, contexts', saveReport)
  /\ UNCHANGED <<pathVars, sessionVars, localText, currentSessionName, clips,
                 transcribeJobs, player, generateJobs>>

\* ------------------------------------------------------ settings inputs
\* handleTextChange of that AudioInput: the user edits the text.
SetInputText(newText) ==
  /\ localText' = newText
  /\ inputText' = OnTextChange(localText')
  /\ currentSessionName' = ClearSession
  /\ UNCHANGED <<selectedSpeaker, contextVars, uploadVars, genVars, cacheVars,
                 files, lastToast>>
  /\ UNCHANGED <<stored, pathVars, sessionVars, saveReport, clips,
                 transcribeJobs, player, generateJobs>>

SetSelectedSpeaker(speaker) ==
  /\ selectedSpeaker' = speaker
  /\ currentSessionName' = ClearSession
  /\ UNCHANGED <<inputText, contextVars, uploadVars, genVars, cacheVars, files,
                 lastToast>>
  /\ UNCHANGED <<stored, pathVars, sessionVars, localText, saveReport, clips,
                 transcribeJobs, player, generateJobs>>

SetMaxAudioLength(length) ==
  /\ maxAudioLength' = length
  /\ currentSessionName' = ClearSession
  /\ UNCHANGED <<settingsVars, temperature, topK, savedSessions, storedSessions,
                 storageFull, contextVars, uploadVars, genVars, cacheVars,
                 files, lastToast>>
  /\ UNCHANGED <<stored, pathVars, localText, saveReport, clips,
                 transcribeJobs, player, generateJobs>>

SetTemperature(temp) ==
  /\ temperature' = temp
  /\ currentSessionName' = ClearSession
  /\ UNCHANGED <<settingsVars, maxAudioLength, topK, savedSessions,
                 storedSessions, storageFull, contextVars, uploadVars, genVars,
                 cacheVars, files, lastToast>>
  /\ UNCHANGED <<stored, pathVars, localText, saveReport, clips,
                 transcribeJobs, player, generateJobs>>

SetTopK(topk) ==
  /\ topK' = topk
  /\ currentSessionName' = ClearSession
  /\ UNCHANGED <<settingsVars, maxAudioLength, temperature, savedSessions,
                 storedSessions, storageFull, contextVars, uploadVars, genVars,
                 cacheVars, files, lastToast>>
  /\ UNCHANGED <<stored, pathVars, localText, saveReport, clips,
                 transcribeJobs, player, generateJobs>>

\* ---------------------------------------------------- context management
Context(name, segments) == [name |-> name, segments |-> segments]

CreateContext(newContextName) ==
  /\ IF newContextName = ""
     THEN /\ lastToast' = Report("error")
          /\ UNCHANGED contextVars
     ELSE IF SomeContext(contexts, newContextName)
     THEN /\ lastToast' = Report("error")
          /\ UNCHANGED contextVars
     ELSE /\ contexts' = Append(contexts, Context(newContextName, <<>>))
          /\ activeContext' = <<Context(newContextName, <<>>)>>
          /\ lastToast' = Report("success")
  /\ UNCHANGED <<settingsVars, uploadVars, genVars, cacheVars, files>>
  /\ stored' = SaveContextsEffect(contexts, contexts', stored)
  /\ saveReport' = SaveContextsReport(contexts, contexts', saveReport)
  /\ UNCHANGED <<pathVars, sessionVars, localText, currentSessionName, clips,
                 transcribeJobs, player, generateJobs>>

HandleSetActiveContext(contextName) ==
  /\ LET context == FindContext(contexts, contextName)
     IN IF context # <<>>
        THEN /\ activeContext' = context
             /\ lastToast' = Report("success")
        ELSE UNCHANGED <<activeContext, lastToast>>
  /\ UNCHANGED <<settingsVars, contexts, uploadVars, genVars, cacheVars, files>>
  /\ UNCHANGED <<stored, pathVars, sessionVars, localText, currentSessionName,
                 saveReport, clips,
                 transcribeJobs, player, generateJobs>>

\* A deletion that takes with it the sessions saved on the context.
DeleteContextCascades(contextName) ==
  /\ contexts' = FilterOut(contexts, contextName)
  /\ activeContext' = IF activeContext # <<>> /\ activeContext[1].name = contextName
                      THEN <<>> ELSE activeContext
  /\ savedSessions' =
       SelectSeq(savedSessions,
                 LAMBDA session : session.contextName # <<contextName>>)
  /\ lastToast' = Report("success")
  /\ UNCHANGED <<settingsVars, uploadVars, genVars, cacheVars, files>>
  /\ stored' = SaveContextsEffect(contexts, contexts', stored)
  /\ saveReport' = SaveContextsReport(contexts, contexts', saveReport)
  /\ UNCHANGED <<pathVars, maxAudioLength, temperature, topK, storedSessions,
                 storageFull, localText, currentSessionName, clips,
                 transcribeJobs, player, generateJobs>>

DeleteContextKeepsActive(contextName) ==
  /\ contexts' = FilterOut(contexts, contextName)
  /\ activeContext' = activeContext
  /\ lastToast' = Report("success")
  /\ UNCHANGED <<settingsVars, uploadVars, genVars, cacheVars, files>>
  /\ stored' = SaveContextsEffect(contexts, contexts', stored)
  /\ saveReport' = SaveContextsReport(contexts, contexts', saveReport)
  /\ UNCHANGED <<pathVars, sessionVars, localText, currentSessionName, clips,
                 transcribeJobs, player, generateJobs>>

DeleteContext(contextName) ==
  /\ contexts' = FilterOut(contexts, contextName)
  /\ activeContext' = IF activeContext # <<>> /\ activeContext[1].name = contextName
                      THEN <<>> ELSE activeContext
  /\ lastToast' = Report("success")
  /\ UNCHANGED <<settingsVars, uploadVars, genVars, cacheVars, files>>
  /\ stored' = SaveContextsEffect(contexts, contexts', stored)
  /\ saveReport' = SaveContextsReport(contexts, contexts', saveReport)
  /\ UNCHANGED <<pathVars, sessionVars, localText, currentSessionName, clips,
                 transcribeJobs, player, generateJobs>>

\* ------------------------------------------------- context-audio ingestion
\* The upload dialog's text and speaker fields (uploadText, uploadSpeaker) are
\* free inputs of the user up to the moment Add is pressed: they are the
\* parameters of HandleAddToContext.

\* onAudioCaptured of the upload dialog: a clip was transcribed.
OnAudioCaptured ==
  /\ nextBlob <= MaxUploads
  /\ uploadedAudio' = TRUE
  /\ uploadAudioUrl' = <<BlobUrl(nextBlob)>>
  /\ nextBlob' = nextBlob + 1
  /\ UNCHANGED <<uploadAudioData, settingsVars, contextVars, genVars, cacheVars,
                 files, lastToast>>
  /\ UNCHANGED <<stored, pathVars, sessionVars, localText, currentSessionName,
                 saveReport, clips,
                 transcribeJobs, player, generateJobs>>

\* fileReader.onload of the upload dialog: the clip was decoded locally.
UploadDecoded ==
  /\ uploadAudioUrl # <<>>
  /\ uploadAudioData # <<Decoded(uploadAudioUrl[1])>>
  /\ uploadAudioData' = <<Decoded(uploadAudioUrl[1])>>
  /\ UNCHANGED <<uploadedAudio, uploadAudioUrl, nextBlob, settingsVars,
                 contextVars, genVars, cacheVars, files, lastToast>>
  /\ UNCHANGED <<stored, pathVars, sessionVars, localText, currentSessionName,
                 saveReport, clips,
                 transcribeJobs, player, generateJobs>>

\* The segment handleAddToContext appends.
UploadSegment(uploadText, uploadSpeaker) ==
  Segment(uploadSpeaker, uploadText, uploadAudioData, uploadAudioUrl)

HandleAddToContext(uploadText, uploadSpeaker) ==
  /\ IF activeContext = <<>>
     THEN /\ lastToast' = Report("error")
          /\ UNCHANGED <<contextVars, uploadVars>>
     ELSE IF ~uploadedAudio \/ uploadAudioUrl = <<>>
     THEN /\ lastToast' = Report("error")
          /\ UNCHANGED <<contextVars, uploadVars>>
     ELSE IF Trim(uploadText) = <<>>
     THEN /\ lastToast' = Report("error")
          /\ UNCHANGED <<contextVars, uploadVars>>
     ELSE LET updatedContexts ==
                AppendSegment(contexts, activeContext[1].name,
                              UploadSegment(uploadText, uploadSpeaker))
              updatedActiveContext ==
                FindContext(updatedContexts, activeContext[1].name)
          IN /\ contexts' = updatedContexts
             /\ activeContext' = IF updatedActiveContext # <<>>
                                 THEN updatedActiveContext ELSE activeContext
             /\ uploadedAudio' = FALSE
             /\ uploadAudioUrl' = <<>>
             /\ uploadAudioData' = <<>>
             /\ UNCHANGED nextBlob
             /\ lastToast' = Report("success")
  /\ UNCHANGED <<settingsVars, genVars, cacheVars, files>>
  /\ stored' = SaveContextsEffect(contexts, contexts', stored)
  /\ saveReport' = SaveContextsReport(contexts, contexts', saveReport)
  /\ UNCHANGED <<pathVars, sessionVars, localText, currentSessionName, clips,
                 transcribeJobs, player, generateJobs>>

\* ------------------------------------------------ transcription of a clip
\* What the fetch of /api/transcribe in transcribeAudio can come back with:
\* the promise rejects (transport error), or a response arrives whose status
\* is ok or not, whose body parses as JSON or not, and whose parsed body has
\* an error member or not.
TranscriptionResponses ==
  {[rejected |-> TRUE, ok |-> FALSE, parses |-> FALSE, error |-> FALSE]}
  \cup {r \in [rejected : {FALSE}, ok : BOOLEAN, parses : BOOLEAN,
               error : BOOLEAN] : r.error => r.parses}

TranscribedIgnoringError(response) ==
  /\ ~response.rejected
  /\ response.ok
  /\ response.parses

\* The try block of transcribeAudio reaches onAudioCaptured: fetch resolved,
\* response.ok, response.json() did not throw, result.error is falsy.
Transcribed(response) ==
  /\ ~response.rejected
  /\ response.ok
  /\ response.parses
  /\ ~response.error

\* transcribeAudio up to the await of fetch: the recorder stopped or a file
\* was chosen in the upload dialog, and the clip is posted once.  The buttons
\* are disabled while isTranscribing, a state of the AudioInput instance: a
\* dialog that was closed and opened again has a new instance while the
\* earlier fetch is still in flight.
TranscribeAudio ==
  /\ Len(clips) < MaxClips
  /\ clips' = Append(clips, [blob |-> nextBlob, fetches |-> 1, response |-> <<>>])
  /\ nextBlob' = nextBlob + 1
  /\ UNCHANGED <<uploadedAudio, uploadAudioUrl, uploadAudioData, settingsVars,
                 contextVars, genVars, cacheVars, files, lastToast>>
  /\ UNCHANGED <<stored, pathVars, sessionVars, localText, currentSessionName,
                 saveReport, transcribeJobs, player, generateJobs>>

\* transcribeAudio after the await: on success onAudioCaptured of the upload
\* dialog keeps the clip, in every other case the catch block reports.
TranscriptionResponds(i, response) ==
  /\ i \in DOMAIN clips
  /\ clips[i].response = <<>>
  /\ clips' = [clips EXCEPT ![i].response = <<response>>]
  /\ IF Transcribed(response)
     THEN /\ uploadedAudio' = TRUE
          /\ uploadAudioUrl' = <<BlobUrl(clips[i].blob)>>
          /\ UNCHANGED <<uploadAudioData, lastToast>>
     ELSE /\ lastToast' = Report("error")
          /\ UNCHANGED <<uploadedAudio, uploadAudioUrl, uploadAudioData>>
  /\ UNCHANGED <<nextBlob, settingsVars, contextVars, genVars, cacheVars, files>>
  /\ UNCHANGED <<stored, pathVars, sessionVars, localText, currentSessionName,
                 saveReport, transcribeJobs, player, generateJobs>>

\* ------------------------------------------------ the transcribe endpoint
\* One record of transcribeJobs per request to /api/transcribe: whether the
\* temporary copy of the clip is on disk, what exec handed to its callback
\* (none until it has run) and the status the handler answered with (none
\* until it has answered).
Methods == {"POST", "GET"}
\* What formidable hands back: an error, no audio field, or the audio file.
FormOutcomes == {"parseError", "noAudio", "audio"}
\* readFileSync and writeFileSync of the copy: done, or one of them threw
\* before or after the temporary file was created.
CopyOutcomes == {"written", "threwBeforeCreate", "threwAfterCreate"}
\* Standard output of the backend process: a JSON text, nothing, other text.
StdoutKinds == {"json", "empty", "text"}

\* JSON.parse(stdout) returns.
JsonParses(stdout) == stdout = "json"

TranscribeJob(tempFile, phase, response) ==
  [tempFile |-> tempFile, phase |-> phase, exec |-> <<>>, response |-> response]

TempFileKept(tempFile) == tempFile

\* if (fs.existsSync(tempFilePath)) fs.unlinkSync(tempFilePath)
TempFileCleanedUp(tempFile) ==
  IF tempFile = "present" THEN "absent" ELSE tempFile

\* The status the exec callback answers with.
CallbackStatus(error, stdout) ==
  IF error THEN 500
  ELSE IF JsonParses(stdout) THEN 200
  ELSE 500

\* The handler up to the call of exec.
TranscribeHandler(method, formOutcome, copyOutcome) ==
  /\ Len(transcribeJobs) < MaxTranscribeJobs
  /\ transcribeJobs' = Append(transcribeJobs,
       IF method # "POST" THEN TranscribeJob("absent", "responded", <<405>>)
       ELSE IF formOutcome = "parseError"
       THEN TranscribeJob("absent", "responded", <<500>>)
       ELSE IF formOutcome = "noAudio"
       THEN TranscribeJob("absent", "responded", <<400>>)
       ELSE IF copyOutcome = "threwBeforeCreate"
       THEN TranscribeJob("absent", "responded", <<500>>)
       ELSE IF copyOutcome = "threwAfterCreate"
       THEN TranscribeJob("present", "responded", <<500>>)
       ELSE TranscribeJob("present", "exec", <<>>))
  /\ UNCHANGED <<settingsVars, contextVars, uploadVars, genVars, cacheVars,
                 files, lastToast, stored, pathVars, sessionVars, localText,
                 currentSessionName, saveReport, clips, player,
                 generateJobs>>

\* The callback of exec.  unlinkSync can throw; the exception leaves the
\* callback and no response is sent.
TranscribeExecCallback(i, error, stdout, unlinkThrows) ==
  /\ i \in DOMAIN transcribeJobs
  /\ transcribeJobs[i].phase = "exec"
  /\ LET job == transcribeJobs[i]
         ran == [error |-> error, stdout |-> stdout]
     IN transcribeJobs' =
          [transcribeJobs EXCEPT ![i] =
             IF job.tempFile = "present" /\ unlinkThrows
             THEN [job EXCEPT !.phase = "threw", !.exec = <<ran>>]
             ELSE [job EXCEPT !.tempFile = TempFileCleanedUp(job.tempFile),
                              !.phase = "responded",
                              !.exec = <<ran>>,
                              !.response = <<CallbackStatus(error, stdout)>>]]
  /\ UNCHANGED <<settingsVars, contextVars, uploadVars, genVars, cacheVars,
                 files, lastToast, stored, pathVars, sessionVars, localText,
                 currentSessionName, saveReport, clips, player,
                 generateJobs>>

\* -------------------------------------------------- the generate endpoint
\* One record of generateJobs per request to /api/generate: the temporary
\* context file (none was needed, on disk, removed), whether exec was called,
\* what exec handed to its callback, and every response sent.
\* A body: text is empty for a missing or empty text, speaker is none when the
\* member is absent, context is the list of segments sent.
GenerateBodies ==
  [text : {<<>>, <<"h">>}, speaker : {<<>>, <<0>>}, context : {<<>>, <<"segment">>}]

\* !text || speaker === undefined
MissingParameters(body) == body.text = <<>> \/ body.speaker = <<>>

\* context && context.length > 0
NeedsContextFile(body) == Len(body.context) > 0

GenerateJob(contextFile, phase, invoked, responses) ==
  [contextFile |-> contextFile, phase |-> phase, invoked |-> invoked,
   exec |-> <<>>, responses |-> responses]

\* if (contextFile && fs.existsSync(contextFile)) fs.unlinkSync(contextFile)
ContextFileCleanedUp(contextFile) ==
  IF contextFile = "present" THEN "absent" ELSE contextFile

\* An error branch whose 200 is not returned.
CallbackResponsesFallThrough(audioId, exec) ==
  IF exec.error /\ FileExists(exec.file) /\ FileSizePositive(exec.file)
  THEN <<GenerateHandler([text |-> <<"h">>], audioId, exec),
         Response(500, <<>>, "null")>>
  ELSE <<GenerateHandler([text |-> <<"h">>], audioId, exec)>>

\* Every res.status(...).json(...) the exec callback executes: each branch
\* returns with its response.
CallbackResponses(audioId, exec) ==
  <<GenerateHandler([text |-> <<"h">>], audioId, exec)>>

\* The handler up to the call of exec.
GenerateRequest(method, body, writeThrows) ==
  /\ Len(generateJobs) < MaxGenerateJobs
  /\ generateJobs' = Append(generateJobs,
       IF method # "POST"
       THEN GenerateJob("none", "responded", FALSE, <<Response(405, <<>>, "null")>>)
       ELSE IF MissingParameters(body)
       THEN GenerateJob("none", "responded", FALSE, <<Response(400, <<>>, "null")>>)
       ELSE IF NeedsContextFile(body) /\ writeThrows
       THEN GenerateJob("none", "responded", FALSE, <<Response(500, <<>>, "null")>>)
       ELSE GenerateJob(IF NeedsContextFile(body) THEN "present" ELSE "none",
                        "exec", TRUE, <<>>))
  /\ UNCHANGED <<settingsVars, contextVars, uploadVars, genVars, cacheVars,
                 files, lastToast, stored, pathVars, sessionVars, localText,
                 currentSessionName, saveReport, clips, transcribeJobs,
                 player>>

\* The callback of exec.  unlinkSync can throw; the exception leaves the
\* callback and no response is sent.
GenerateExecCallback(i, exec, unlinkThrows) ==
  /\ i \in DOMAIN generateJobs
  /\ generateJobs[i].phase = "exec"
  /\ LET job == generateJobs[i]
     IN generateJobs' =
          [generateJobs EXCEPT ![i] =
             IF job.contextFile = "present" /\ unlinkThrows
             THEN [job EXCEPT !.phase = "threw", !.exec = <<exec>>]
             ELSE [job EXCEPT !.contextFile = ContextFileCleanedUp(job.contextFile),
                              !.phase = "responded",
                              !.exec = <<exec>>,
                              !.responses = job.responses \o CallbackResponses(i, exec)]]
  /\ UNCHANGED <<settingsVars, contextVars, uploadVars, genVars, cacheVars,
                 files, lastToast, stored, pathVars, sessionVars, localText,
                 currentSessionName, saveReport, clips, transcribeJobs,
                 player>>

\* ------------------------------------------------- the playback loader
\* The effect on [audioUrl] and its handlers on the <audio> element.  player is
\* none until the effect has run; then it holds the url the effect ran for,
\* the value last assigned to the element's src, what is awaited (the outcome
\* of load(), the fetch of the blob, nothing), and how many times load() and
\* fetch(proxyUrl) were called.
\* A url is the text assigned and whether that text is an absolute url.
\* audioUrl is "/audio/<id>.wav" (generate handler), so directUrl and proxyUrl
\* are relative; URL.createObjectURL gives an absolute "blob:" url.
DirectUrl == [to |-> "direct", absolute |-> FALSE]
ProxyUrl == [to |-> "proxy", absolute |-> FALSE]
ObjectUrl == [to |-> "blob", absolute |-> TRUE]

\* Reading HTMLMediaElement.src gives the assigned url resolved against the
\* document: an absolute url.
ElementSrc(assigned) == [assigned EXCEPT !.absolute = TRUE]

SrcIsDirectAlways(assigned) == assigned.to = "direct"

\* currentAudioRef.src === directUrl
SrcIsDirect(assigned) == ElementSrc(assigned) = DirectUrl

Player(url, src, awaiting, loads, fetches) ==
  [audioUrl |-> url, src |-> src, awaiting |-> awaiting, loads |-> loads,
   fetches |-> fetches]

\* Whether what src points at can be played: the artifact is a WAV file.  The
\* blob holds whatever the proxy answered, the file or the JSON of a 404.
Playable(kind) == kind = "wav"

\* The effect runs for a new audioUrl: src = directUrl, load().
PlaybackEffect ==
  /\ audioUrl # <<>>
  /\ IF player = <<>> THEN TRUE ELSE player[1].audioUrl # audioUrl[1]
  /\ player' = <<Player(audioUrl[1], DirectUrl, "load", 1, 0)>>
  /\ UNCHANGED <<settingsVars, contextVars, uploadVars, genVars, cacheVars,
                 files, lastToast, stored, pathVars, sessionVars, localText,
                 currentSessionName, saveReport, clips, transcribeJobs,
                 generateJobs>>

\* loadeddata / canplay
HandleLoadedData ==
  /\ player # <<>>
  /\ player[1].awaiting = "load"
  /\ Playable(files[player[1].audioUrl])
  /\ player' = <<[player[1] EXCEPT !.awaiting = "none"]>>
  /\ UNCHANGED <<settingsVars, contextVars, uploadVars, genVars, cacheVars,
                 files, lastToast, stored, pathVars, sessionVars, localText,
                 currentSessionName, saveReport, clips, transcribeJobs,
                 generateJobs>>

\* handleError: the element could not load what src points at (the file is
\* not playable, or the transfer failed).
HandleError ==
  /\ player # <<>>
  /\ player[1].awaiting = "load"
  /\ player[1].loads < MaxPlaybackLoads
  /\ IF SrcIsDirect(player[1].src)
     THEN /\ player' = <<[player[1] EXCEPT !.src = ProxyUrl,
                                           !.loads = @ + 1]>>
          /\ UNCHANGED lastToast
     ELSE /\ player' = <<[player[1] EXCEPT !.awaiting = "fetch",
                                           !.fetches = @ + 1]>>
          /\ lastToast' = Report("error")
  /\ UNCHANGED <<settingsVars, contextVars, uploadVars, genVars, cacheVars,
                 files, stored, pathVars, sessionVars, localText,
                 currentSessionName, saveReport, clips, transcribeJobs,
                 generateJobs>>

\* fetch(proxyUrl).then(response => response.blob()).then(...).catch(...):
\* whatever the status, the body becomes a blob and src; a rejected fetch is
\* logged.
BlobFetchSettles(netError) ==
  /\ player # <<>>
  /\ player[1].awaiting = "fetch"
  /\ player' = IF netError
               THEN <<[player[1] EXCEPT !.awaiting = "none"]>>
               ELSE <<[player[1] EXCEPT !.src = ObjectUrl,
                                        !.awaiting = "load",
                                        !.loads = @ + 1]>>
  /\ UNCHANGED <<settingsVars, contextVars, uploadVars, genVars, cacheVars,
                 files, lastToast, stored, pathVars, sessionVars, localText,
                 currentSessionName, saveReport, clips, transcribeJobs,
                 generateJobs>>

\* ------------------------------------------------------ saved sessions
\* A SavedSession.  id is Date.now().toString(), kept as the number it is the
\* decimal writing of; contextName is an optional (null is <<>>).
SessionNames == {"S"}
SessionNameInputs == SessionNames \cup {""}
MaxAudioLengths == {10000, 5000}
Temperatures == {9, 5}
TopKs == {50, 20}
Times == 1..MaxTime

\* The values a render shows once the effect of AudioInput has run on it:
\* the input text is the component's text whatever the handler set, and a
\* current session name, if the handler set one, is cleared.
RenderedInputText(value) == OnTextChange(localText)
RenderedSessionName(label) == IF label # <<>> THEN ClearSession ELSE label

\* A snapshot that forgets the active context.
NewSessionWithoutContext(sessionName, t) ==
  [id |-> t,
   name |-> sessionName,
   inputText |-> inputText,
   selectedSpeaker |-> selectedSpeaker,
   maxAudioLength |-> maxAudioLength,
   temperature |-> temperature,
   topK |-> topK,
   contextName |-> <<>>,
   createdAt |-> t]

\* newSession of saveCurrentSession; Date.now() is t both times.
NewSession(sessionName, t) ==
  [id |-> t,
   name |-> sessionName,
   inputText |-> inputText,
   selectedSpeaker |-> selectedSpeaker,
   maxAudioLength |-> maxAudioLength,
   temperature |-> temperature,
   topK |-> topK,
   contextName |-> IF activeContext # <<>> /\ activeContext[1].name # ""
                   THEN <<activeContext[1].name>> ELSE <<>>,
   createdAt |-> t]

\* storeSessions: localStorage.setItem("csm-sessions", JSON.stringify(...)),
\* a throw caught and reported.
StoreSessions(sessionsToStore, store) ==
  IF storageFull THEN store ELSE <<sessionsToStore>>

\* A storeSessions that swallows the failure.
StoreSessionsSilent == NoReport

StoreSessionsReport == IF storageFull THEN Report("error") ELSE NoReport

\* savedSessions.filter(session => session.id !== id)
FilterSessions(sessions, id) == SelectSeq(sessions, LAMBDA session : session.id # id)

SaveCurrentSession(sessionName, t) ==
  /\ IF sessionName = ""
     THEN /\ lastToast' = Report("error")
          /\ UNCHANGED <<savedSessions, storedSessions, saveReport,
                         currentSessionName, inputText>>
     ELSE LET updatedSessions == Append(savedSessions, NewSession(sessionName, t))
          IN /\ savedSessions' = updatedSessions
             /\ storedSessions' = StoreSessions(updatedSessions, storedSessions)
             /\ saveReport' = StoreSessionsReport
             /\ currentSessionName' = RenderedSessionName(<<sessionName>>)
             /\ inputText' = RenderedInputText(inputText)
             /\ lastToast' = Report("success")
  /\ UNCHANGED <<selectedSpeaker, maxAudioLength, temperature, topK, localText,
                 storageFull, contextVars, uploadVars, genVars, cacheVars,
                 files, stored, pathVars, clips,
                 transcribeJobs, player, generateJobs>>

LoadSession(session) ==
  /\ inputText' = RenderedInputText(session.inputText)
  /\ selectedSpeaker' = session.selectedSpeaker
  /\ maxAudioLength' = session.maxAudioLength
  /\ temperature' = session.temperature
  /\ topK' = session.topK
  /\ currentSessionName' = RenderedSessionName(<<session.name>>)
  /\ LET contextToLoad ==
           IF session.contextName = <<>> THEN <<>>
           ELSE FindContext(contexts, session.contextName[1])
     IN activeContext' = IF contextToLoad # <<>> THEN contextToLoad
                         ELSE activeContext
  /\ lastToast' = Report("success")
  /\ UNCHANGED <<contexts, localText, savedSessions, storedSessions,
                 storageFull, saveReport, uploadVars, genVars, cacheVars,
                 files, stored, pathVars, clips,
                 transcribeJobs, player, generateJobs>>

DeleteSession(id) ==
  /\ LET updatedSessions == FilterSessions(savedSessions, id)
     IN /\ savedSessions' = updatedSessions
        /\ storedSessions' = StoreSessions(updatedSessions, storedSessions)
  /\ saveReport' = StoreSessionsReport
  /\ inputText' = RenderedInputText(inputText)
  /\ lastToast' = Report("success")
  /\ UNCHANGED <<selectedSpeaker, maxAudioLength, temperature, topK, localText,
                 currentSessionName, storageFull, contextVars, uploadVars,
                 genVars, cacheVars, files, stored, pathVars, clips,
                 transcribeJobs, player, generateJobs>>

\* ------------------------------------------------------------ the program
\* useState initial values of the settings and of the session management, the
\* AudioInput of the Generate tab mounted with initialText = "", nothing under
\* csm-sessions, room in localStorage, no clip handed to transcribeAudio.
\* temperature is counted in tenths (0.9 is 9).
InitSessions ==
  /\ maxAudioLength = 10000
  /\ temperature = 9
  /\ topK = 50
  /\ localText = <<>>
  /\ currentSessionName = <<>>
  /\ savedSessions = <<>>
  /\ storedSessions = <<>>
  /\ storageFull = FALSE
  /\ saveReport = NoReport
  /\ clips = <<>>
  /\ transcribeJobs = <<>>
  /\ player = <<>>
  /\ generateJobs = <<>>

Init ==
  /\ inputText = <<>>
  /\ selectedSpeaker = 0
  /\ contexts = <<>>
  /\ activeContext = <<>>
  /\ isProcessing = FALSE
  /\ audioUrl = <<>>
  /\ audioData = <<>>
  /\ uploadedAudio = FALSE
  /\ uploadAudioUrl = <<>>
  /\ uploadAudioData = <<>>
  /\ nextBlob = 1
  /\ audioCache = [u \in AudioUrls |-> <<>>]
  /\ files = [u \in AudioUrls |-> "missing"]
  /\ requests = <<>>
  /\ calls = <<>>
  /\ lastToast = NoReport
  /\ stored = <<>>
  /\ filename = <<>>
  /\ filePath = <<>>
  /\ InitSessions

Next ==
  \/ \E text \in Texts : SetInputText(text)
  \/ \E speaker \in Speakers : SetSelectedSpeaker(speaker)
  \/ \E name \in NameInputs : CreateContext(name)
  \/ \E name \in Names : HandleSetActiveContext(name)
  \/ \E name \in Names : DeleteContext(name)
  \/ OnAudioCaptured
  \/ UploadDecoded
  \/ \E text \in Texts, speaker \in Speakers : HandleAddToContext(text, speaker)
  \/ Len(requests) < MaxRequests /\ GenerateSpeech
  \/ \E r \in DOMAIN requests : BackendResponds(r)
  \/ \E r \in DOMAIN requests : ValidateArtifact(r)
  \/ \E r \in DOMAIN requests : CompleteGeneration(r)
  \/ \E c \in DOMAIN calls : CallDirect(c)
  \/ \E c \in DOMAIN calls : CallProxy(c)
  \/ \E c \in DOMAIN calls : CallDecode(c)
  \/ \E c \in DOMAIN calls : CallProbe(c)

Spec == Init /\ [][Next]_vars

\* ------------------------------------------- submissions, one after another
\* The program with one context name and without the ingestion dialog, and room
\* for a second generateSpeech invocation.
BusyNames == {"A"}

NextBusy ==
  \/ \E text \in Texts : SetInputText(text)
  \/ \E speaker \in Speakers : SetSelectedSpeaker(speaker)
  \/ \E name \in BusyNames : CreateContext(name)
  \/ \E name \in BusyNames : DeleteContext(name)
  \/ Len(requests) < MaxBusyRequests /\ GenerateSpeech
  \/ \E r \in DOMAIN requests : BackendResponds(r)
  \/ \E r \in DOMAIN requests : ValidateArtifact(r)
  \/ \E r \in DOMAIN requests : CompleteGeneration(r)
  \/ \E c \in DOMAIN calls : CallDirect(c)
  \/ \E c \in DOMAIN calls : CallProxy(c)
  \/ \E c \in DOMAIN calls : CallDecode(c)
  \/ \E c \in DOMAIN calls : CallProbe(c)

SpecBusy == Init /\ [][NextBusy]_vars

\* Every answer arrives: the fetch of /api/generate, the check-audio fetch,
\* every retrieval, decode and probe of fetchAudioBuffer settles, and the
\* continuation of generateSpeech after its last await runs.
BusyFairness ==
  /\ WF_vars(\E r \in DOMAIN requests : BackendResponds(r))
  /\ WF_vars(\E r \in DOMAIN requests : ValidateArtifact(r))
  /\ WF_vars(\E r \in DOMAIN requests : CompleteGeneration(r))
  /\ WF_vars(\E c \in DOMAIN calls : CallDirect(c))
  /\ WF_vars(\E c \in DOMAIN calls : CallProxy(c))
  /\ WF_vars(\E c \in DOMAIN calls : CallDecode(c))
  /\ WF_vars(\E c \in DOMAIN calls : CallProbe(c))

SpecBusyLive == SpecBusy /\ BusyFairness

\* --------------------------------- generation on a context that has grown
\* One context that gets a segment by ingestion and one by each generation,
\* so that a request is submitted with several segments in the active context.
NextPayload ==
  \/ \E newText \in Texts : SetInputText(newText)
  \/ \E name \in BusyNames : CreateContext(name)
  \/ OnAudioCaptured
  \/ UploadDecoded
  \/ \E uploadText \in Texts, speaker \in Speakers :
       HandleAddToContext(uploadText, speaker)
  \/ Len(requests) < MaxBusyRequests /\ GenerateSpeech
  \/ \E r \in DOMAIN requests : BackendResponds(r)
  \/ \E r \in DOMAIN requests : ValidateArtifact(r)
  \/ \E r \in DOMAIN requests : CompleteGeneration(r)
  \/ \E c \in DOMAIN calls : CallDirect(c)
  \/ \E c \in DOMAIN calls : CallProxy(c)
  \/ \E c \in DOMAIN calls : CallDecode(c)
  \/ \E c \in DOMAIN calls : CallProbe(c)

SpecPayload == Init /\ [][NextPayload]_vars

\* ------------------------------------------- settings, contexts, sessions
\* The Generate tab without generation: the settings are edited, contexts are
\* created, activated and deleted, sessions are saved, loaded and deleted.
NextSession ==
  \/ \E newText \in Texts : SetInputText(newText)
  \/ \E speaker \in Speakers : SetSelectedSpeaker(speaker)
  \/ \E length \in MaxAudioLengths : SetMaxAudioLength(length)
  \/ \E temp \in Temperatures : SetTemperature(temp)
  \/ \E topk \in TopKs : SetTopK(topk)
  \/ \E name \in Names : CreateContext(name)
  \/ \E name \in Names : HandleSetActiveContext(name)
  \/ \E name \in Names : DeleteContext(name)
  \/ /\ Len(savedSessions) < MaxSessions
     /\ \E sessionName \in SessionNameInputs, t \in Times :
          SaveCurrentSession(sessionName, t)
  \/ \E i \in DOMAIN savedSessions : LoadSession(savedSessions[i])
  \/ \E i \in DOMAIN savedSessions : DeleteSession(savedSessions[i].id)

SpecSession == Init /\ [][NextSession]_vars

\* ------------------------------------------------------------ persistence
\* localStorage fills up or is given room again.
StorageChanges ==
  /\ storageFull' = ~storageFull
  /\ UNCHANGED <<settingsVars, contextVars, uploadVars, genVars, cacheVars,
                 files, lastToast, stored, pathVars, maxAudioLength,
                 temperature, topK, localText, currentSessionName,
                 savedSessions, storedSessions, saveReport, clips,
                 transcribeJobs, player, generateJobs>>

\* The page is loaded again: every useState starts over, the module's
\* audioCache is empty, the load effect reads csm-contexts and csm-sessions,
\* and the save effect runs on the contexts loaded.  What was awaited by the
\* page left is gone with it.
Reload ==
  /\ inputText' = <<>>
  /\ selectedSpeaker' = 0
  /\ maxAudioLength' = 10000
  /\ temperature' = 9
  /\ topK' = 50
  /\ localText' = <<>>
  /\ currentSessionName' = <<>>
  /\ activeContext' = <<>>
  /\ contexts' = IF stored = <<>> THEN <<>> ELSE LoadedContexts(stored[1])
  /\ savedSessions' = IF storedSessions = <<>> THEN <<>> ELSE storedSessions[1]
  /\ isProcessing' = FALSE
  /\ audioUrl' = <<>>
  /\ audioData' = <<>>
  /\ requests' = <<>>
  /\ calls' = <<>>
  /\ clips' = <<>>
  /\ audioCache' = [u \in AudioUrls |-> <<>>]
  /\ uploadedAudio' = FALSE
  /\ uploadAudioUrl' = <<>>
  /\ uploadAudioData' = <<>>
  /\ lastToast' = NoReport
  /\ stored' = SaveContextsEffect(<<>>, contexts', stored)
  /\ saveReport' = SaveContextsReport(<<>>, contexts', NoReport)
  /\ UNCHANGED <<nextBlob, files, storedSessions, storageFull, pathVars,
                 transcribeJobs, player, generateJobs>>

\* Contexts and sessions with a localStorage that may refuse a write, and
\* reloads of the page.
NextStorage ==
  \/ \E speaker \in Speakers : SetSelectedSpeaker(speaker)
  \/ \E name \in BusyNames : CreateContext(name)
  \/ \E name \in BusyNames : DeleteContext(name)
  \/ OnAudioCaptured
  \/ UploadDecoded
  \/ \E uploadText \in Texts : HandleAddToContext(uploadText, 1)
  \/ /\ Len(savedSessions) < MaxStoredSessions
     /\ \E sessionName \in SessionNameInputs, t \in Times :
          SaveCurrentSession(sessionName, t)
  \/ \E i \in DOMAIN savedSessions : LoadSession(savedSessions[i])
  \/ \E i \in DOMAIN savedSessions : DeleteSession(savedSessions[i].id)
  \/ StorageChanges
  \/ Reload

SpecStorage == Init /\ [][NextStorage]_vars

\* ------------------------------------------- the upload dialog on its own
\* Clips are transcribed and added to the active context.
NextTranscribe ==
  \/ \E name \in BusyNames : CreateContext(name)
  \/ \E name \in BusyNames : DeleteContext(name)
  \/ TranscribeAudio
  \/ \E i \in DOMAIN clips, response \in TranscriptionResponses :
       TranscriptionResponds(i, response)
  \/ UploadDecoded
  \/ \E uploadText \in Texts, speaker \in Speakers :
       HandleAddToContext(uploadText, speaker)

SpecTranscribe == Init /\ [][NextTranscribe]_vars

\* ------------------------------ every handler that sets the active context
\* Create, set-active, delete, ingestion, session load and generation, in any
\* order, with one text to speak and one text for an uploaded clip.
NextActive ==
  \/ SetInputText(<<"h">>)
  \/ \E name \in Names : CreateContext(name)
  \/ \E name \in Names : HandleSetActiveContext(name)
  \/ \E name \in Names : DeleteContext(name)
  \/ OnAudioCaptured
  \/ HandleAddToContext(<<"h">>, 1)
  \/ Len(requests) < MaxRequests /\ GenerateSpeech
  \/ \E r \in DOMAIN requests : BackendResponds(r)
  \/ \E r \in DOMAIN requests : ValidateArtifact(r)
  \/ \E r \in DOMAIN requests : CompleteGeneration(r)
  \/ \E c \in DOMAIN calls : CallDirect(c)
  \/ \E c \in DOMAIN calls : CallProxy(c)
  \/ \E c \in DOMAIN calls : CallDecode(c)
  \/ \E c \in DOMAIN calls : CallProbe(c)
  \/ /\ Len(savedSessions) < MaxSessions
     /\ \E sessionName \in SessionNames, t \in Times :
          SaveCurrentSession(sessionName, t)
  \/ \E i \in DOMAIN savedSessions : LoadSession(savedSessions[i])

SpecActive == Init /\ [][NextActive]_vars

\* ------------------------------------- the transcribe endpoint on its own
NextEndpoint ==
  \/ \E method \in Methods, formOutcome \in FormOutcomes,
        copyOutcome \in CopyOutcomes :
       TranscribeHandler(method, formOutcome, copyOutcome)
  \/ \E i \in DOMAIN transcribeJobs, error \in BOOLEAN,
        stdout \in StdoutKinds, unlinkThrows \in BOOLEAN :
       TranscribeExecCallback(i, error, stdout, unlinkThrows)

SpecEndpoint == Init /\ [][NextEndpoint]_vars

\* ------------------------------------------------ the resolver on its own
\* fetchAudioBuffer(url) called again and again, each call after the one before
\* has returned, on artifacts of every kind.
ResolveCall(url) ==
  /\ Len(calls) < MaxCalls
  /\ \A c \in DOMAIN calls : calls[c].pc \in {"returned", "threw"}
  /\ calls' = Append(calls, FetchAudioBufferStart(audioCache, url))
  /\ UNCHANGED <<settingsVars, contextVars, uploadVars, genVars, audioCache,
                 files, lastToast>>
  /\ UNCHANGED <<stored, pathVars, sessionVars, localText, currentSessionName,
                 saveReport, clips,
                 transcribeJobs, player, generateJobs>>

InitResolve ==
  /\ inputText = <<>>
  /\ selectedSpeaker = 0
  /\ contexts = <<>>
  /\ activeContext = <<>>
  /\ isProcessing = FALSE
  /\ audioUrl = <<>>
  /\ audioData = <<>>
  /\ uploadedAudio = FALSE
  /\ uploadAudioUrl = <<>>
  /\ uploadAudioData = <<>>
  /\ nextBlob = 1
  /\ audioCache = [u \in AudioUrls |-> <<>>]
  /\ files \in [AudioUrls -> FileKinds]
  /\ requests = <<>>
  /\ calls = <<>>
  /\ lastToast = NoReport
  /\ stored = <<>>
  /\ filename = <<>>
  /\ filePath = <<>>
  /\ InitSessions

NextResolve ==
  \/ \E url \in AudioUrls : ResolveCall(url)
  \/ \E c \in DOMAIN calls : CallDirect(c)
  \/ \E c \in DOMAIN calls : CallProxy(c)
  \/ \E c \in DOMAIN calls : CallDecode(c)
  \/ \E c \in DOMAIN calls : CallProbe(c)

SpecResolve == InitResolve /\ [][NextResolve]_vars

\* --------------------------------------- the generate endpoint on its own
NextGenerate ==
  \/ \E method \in Methods, body \in GenerateBodies, writeThrows \in BOOLEAN :
       GenerateRequest(method, body, writeThrows)
  \/ \E i \in DOMAIN generateJobs, exec \in ExecOutcomes,
        unlinkThrows \in BOOLEAN :
       GenerateExecCallback(i, exec, unlinkThrows)

SpecGenerate == Init /\ [][NextGenerate]_vars

\* ----------------------------------------- the playback loader on its own
\* An artifact reference has been returned and set as audioUrl; the file
\* behind it is of any kind.
InitPlayback ==
  /\ inputText = <<>>
  /\ selectedSpeaker = 0
  /\ contexts = <<>>
  /\ activeContext = <<>>
  /\ isProcessing = FALSE
  /\ audioUrl \in {<<u>> : u \in AudioUrls}
  /\ audioData = <<>>
  /\ uploadedAudio = FALSE
  /\ uploadAudioUrl = <<>>
  /\ uploadAudioData = <<>>
  /\ nextBlob = 1
  /\ audioCache = [u \in AudioUrls |-> <<>>]
  /\ files \in [AudioUrls -> FileKinds]
  /\ requests = <<>>
  /\ calls = <<>>
  /\ lastToast = NoReport
  /\ stored = <<>>
  /\ filename = <<>>
  /\ filePath = <<>>
  /\ InitSessions

NextPlayback ==
  \/ PlaybackEffect
  \/ HandleLoadedData
  \/ HandleError
  \/ \E netError \in BOOLEAN : BlobFetchSettles(netError)

SpecPlayback == InitPlayback /\ [][NextPlayback]_vars

\* ----------------------------------------- the filename parameter alone
\* A request to /api/audio-proxy or /api/check-audio with any filename: the
\* handler builds the path it goes on to look up and open.
OpenAudioFile ==
  /\ filename # <<>>
  /\ filePath = <<>>
  /\ filePath' = <<FilePath(filename)>>
  /\ UNCHANGED <<settingsVars, contextVars, uploadVars, genVars, cacheVars,
                 files, lastToast, stored, filename, sessionVars, localText,
                 currentSessionName, saveReport, clips,
                 transcribeJobs, player, generateJobs>>

InitPath ==
  /\ inputText = <<>>
  /\ selectedSpeaker = 0
  /\ contexts = <<>>
  /\ activeContext = <<>>
  /\ isProcessing = FALSE
  /\ audioUrl = <<>>
  /\ audioData = <<>>
  /\ uploadedAudio = FALSE
  /\ uploadAudioUrl = <<>>
  /\ uploadAudioData = <<>>
  /\ nextBlob = 1
  /\ audioCache = [u \in AudioUrls |-> <<>>]
  /\ files = [u \in AudioUrls |-> "missing"]
  /\ requests = <<>>
  /\ calls = <<>>
  /\ lastToast = NoReport
  /\ stored = <<>>
  /\ filename \in Filenames
  /\ filePath = <<>>
  /\ InitSessions

NextPath == OpenAudioFile

SpecPath == InitPath /\ [][NextPath]_vars

\* -------------------------------------------------------------- properties
IsPrefix(s, t) == Len(s) <= Len(t) /\ SubSeq(t, 1, Len(s)) = s

SegmentsOf(ctxs, name) ==
  IF FindContext(ctxs, name) = <<>> THEN <<>>
  ELSE FindContext(ctxs, name)[1].segments

\* This step is the successful completion of invocation r of generateSpeech.
Completes(r) ==
  /\ requests[r].pc = "ResolvingAudio"
  /\ requests'[r].pc = "Complete"

\* This step is the failure of invocation r of generateSpeech.
Fails(r) ==
  /\ InFlight(r)
  /\ requests'[r].pc = "Errored"

\* This step is a completion that appends to the stored context called name.
GenerationAppends(name) ==
  \E r \in DOMAIN requests :
    /\ Completes(r)
    /\ requests[r].activeContext # <<>>
    /\ requests[r].activeContext[1].name = name
    /\ FindContext(contexts, name) # <<>>

\* This step is handleAddToContext appending to the context called name.
IngestionAppends(name) ==
  /\ uploadedAudio
  /\ ~uploadedAudio'
  /\ activeContext # <<>>
  /\ activeContext[1].name = name

\* C1: whatever the interleaving of generation completions and ingestion
\* appends on a context, each append adds exactly one segment at the end of
\* that context and keeps every earlier segment in place: the segment list
\* before the append is a prefix of the list after it (so an ingestion append
\* made while a generation is in flight survives that generation's completion).
C1_AppendKeepsEarlierSegments ==
  [][\A name \in Names :
       (GenerationAppends(name) \/ IngestionAppends(name)) =>
         /\ IsPrefix(SegmentsOf(contexts, name), SegmentsOf(contexts', name))
         /\ Len(SegmentsOf(contexts', name)) = Len(SegmentsOf(contexts, name)) + 1
    ]_vars

\* C2: at most one invocation of generateSpeech is in flight (awaiting the
\* backend, validating or resolving audio), and while one is in flight the
\* only way to submit is shut: no second invocation starts, so none reaches
\* the backend or touches the contexts.
C2_AtMostOneInFlight ==
  /\ Cardinality({r \in DOMAIN requests : InFlight(r)}) <= 1
  /\ (\E r \in DOMAIN requests : InFlight(r)) => GenerateDisabled

\* A request is in flight while the user has text to submit and a further
\* invocation could be followed.
C2_Witness ==
  /\ \E r \in DOMAIN requests : InFlight(r)
  /\ ~InputRejected(inputText)
  /\ Len(requests) < MaxBusyRequests

\* What check-audio answers for a sound artifact.
ArtifactValid(kind) ==
  LET checkData == CheckAudioHandler(kind, FALSE)
  IN checkData.exists /\ checkData.isReadable /\ checkData.isValidWav

\* C3: a request whose artifact is missing, empty or unreadable, or does not
\* start with a RIFF/WAVE signature fails: it never completes (no segment is
\* appended and no success is reported for it).
C3_InvalidArtifactFailsRequest ==
  \A r \in DOMAIN requests :
    requests[r].pc = "Complete" => ArtifactValid(files[AudioUrl(r)])

\* C4: a generation request that ends in error (the backend answers not ok, or
\* an exception is caught before completion) leaves the contexts and the
\* active context as they were, and so does a submission turned down for its
\* empty input.
C4_ErrorLeavesContexts ==
  [][/\ (\E r \in DOMAIN requests : Fails(r)) =>
          (contexts' = contexts /\ activeContext' = activeContext)
     /\ (/\ ~GenerateDisabled
         /\ InputRejected(inputText)
         /\ requests' = requests
         /\ lastToast' = Report("error")) =>
          (contexts' = contexts /\ activeContext' = activeContext)
    ]_vars

\* A request has failed while a context with segments was stored and active.
C4_Witness ==
  /\ \E r \in DOMAIN requests : requests[r].pc = "Errored"
  /\ activeContext # <<>>
  /\ activeContext[1].segments # <<>>
  /\ SegmentsOf(contexts, activeContext[1].name) # <<>>

\* C5: when a generation completes and a context was active for it, the store
\* after the completion is the store before it with exactly one segment added
\* at the end of that context, carrying the speaker and text sent to the
\* backend and the artifact reference it returned; with no active context the
\* store is unchanged.
C5_CompletionAppendsOneSegment ==
  [][\A r \in DOMAIN requests :
       Completes(r) =>
         IF requests[r].activeContext # <<>>
         THEN contexts' = AppendSegment(contexts,
                                        requests[r].activeContext[1].name,
                                        Segment(requests[r].speaker,
                                                requests[r].text, <<>>,
                                                <<AudioUrl(r)>>))
         ELSE contexts' = contexts
    ]_vars

\* C6: when the synthesis process exits with an error but left a non-empty
\* artifact, the generate endpoint answers 200 with the artifact reference
\* and warnings and the request goes on; a request fails only when no
\* non-empty artifact exists; and the completion of a request leaves its
\* segment last in the context that was active for it.
C6_SuccessWithWarnings ==
  /\ [](\A r \in DOMAIN requests :
         /\ (requests[r].pc = "ValidatingArtifact" /\ requests[r].execError) =>
              /\ requests[r].response.status = 200
              /\ requests[r].response.audioUrl = <<AudioUrl(r)>>
              /\ requests[r].response.warnings # "null"
              /\ FileSizePositive(files[AudioUrl(r)])
         /\ requests[r].pc = "Errored" => ~FileSizePositive(files[AudioUrl(r)])
         /\ (InFlight(r) /\ requests[r].pc # "AwaitingBackend") =>
              FileSizePositive(files[AudioUrl(r)]))
  /\ [][\A r \in DOMAIN requests :
          /\ (InFlight(r) /\ requests[r].pc # "AwaitingBackend") => ~Fails(r)
          /\ (Completes(r) /\ requests[r].activeContext # <<>>) =>
               LET segments ==
                     SegmentsOf(contexts', requests[r].activeContext[1].name)
               IN /\ segments # <<>>
                  /\ segments[Len(segments)] =
                       Segment(requests[r].speaker, requests[r].text, <<>>,
                               <<AudioUrl(r)>>)
       ]_vars

\* The process exited with an error, left a non-empty artifact, and the
\* request, made with an active context, was answered 200 with warnings.
C6_Witness ==
  \E r \in DOMAIN requests :
    /\ requests[r].pc = "ValidatingArtifact"
    /\ requests[r].execError
    /\ requests[r].response.warnings # "null"
    /\ requests[r].activeContext # <<>>

\* Invocation c of fetchAudioBuffer returns in this step.
ReturnsNow(c) ==
  /\ calls'[c].pc = "returned"
  /\ (c \notin DOMAIN calls \/ calls[c].pc # "returned")

Returned(c) == calls[c].pc = "returned" /\ calls[c].result # <<>>

C9_DecodeFailurePlaceholder ==
  [][\A c \in DOMAIN calls :
       (/\ calls[c].pc = "probe"
        /\ calls[c].error = "decode"
        /\ calls'[c].head = "ok") =>
         /\ calls'[c].pc = "returned"
         /\ calls'[c].result = <<DecodeFailPlaceholder>>
         /\ calls'[c].result[1].kind = "placeholder"
         /\ calls'[c].result[1].samples = 120000
         /\ lastToast' = "warning"
    ]_vars

\* A call has returned the 120000-sample placeholder after a decode failure
\* and a successful probe.
C9_Witness ==
  \E c \in DOMAIN calls :
    /\ calls[c].pc = "returned"
    /\ calls[c].error = "decode"
    /\ calls[c].head = "ok"
    /\ calls[c].result = <<DecodeFailPlaceholder>>
    /\ lastToast = "warning"

\* C10: when the direct and the proxied retrieval both failed and the probe
\* fails or throws, fetchAudioBuffer returns the unreachable placeholder of
\* 3 s, 72000 samples, different from the decode-failure one, and a warning
\* is reported; and whatever the outcomes, a call never throws, can always
\* go on until it has returned, and returns sample data.
C10_UnreachablePlaceholder ==
  /\ [][\A c \in DOMAIN calls :
          (/\ calls[c].pc = "probe"
           /\ calls[c].error = "retrieval"
           /\ calls'[c].head = "failed") =>
            /\ calls'[c].pc = "returned"
            /\ calls'[c].result = <<UnreachablePlaceholder>>
            /\ calls'[c].result[1].kind = "placeholder"
            /\ calls'[c].result[1].samples = 72000
            /\ calls'[c].result # <<DecodeFailPlaceholder>>
            /\ lastToast' = "warning"
       ]_vars
  /\ [](\A c \in DOMAIN calls :
          /\ calls[c].pc # "threw"
          /\ (calls[c].pc = "returned" =>
                /\ Len(calls[c].result) = 1
                /\ calls[c].result[1].kind \in {"decoded", "placeholder"})
          /\ (calls[c].pc # "returned" =>
                ENABLED (CallDirect(c) \/ CallProxy(c) \/ CallDecode(c)
                           \/ CallProbe(c))))

\* A call has returned the 72000-sample placeholder after both retrievals and
\* the probe failed.
C10_Witness ==
  \E c \in DOMAIN calls :
    /\ calls[c].pc = "returned"
    /\ calls[c].error = "retrieval"
    /\ calls[c].head = "failed"
    /\ calls[c].result = <<UnreachablePlaceholder>>
    /\ lastToast = "warning"

FetchFailed(fetch) == fetch.outcome \in {"notok", "neterr"}

\* C11: an invocation of fetchAudioBuffer that missed the cache fetches the
\* direct path first; it fetches the proxied path if and only if the direct
\* fetch ended in a network error or a non-success status, after the direct
\* fetch and at most once.
C11_DirectThenProxy ==
  \A c \in DOMAIN calls :
    LET fetches == calls[c].fetches
    IN /\ Len(fetches) <= 2
       /\ calls[c].pc = "direct" => fetches = <<>>
       /\ calls[c].pc \in {"proxy", "decode", "probe"} => fetches # <<>>
       /\ fetches # <<>> => fetches[1].path = "direct"
       /\ Len(fetches) = 2 =>
            (fetches[2].path = "proxy" /\ FetchFailed(fetches[1]))
       /\ (fetches # <<>> /\ FetchFailed(fetches[1]) /\ calls[c].pc # "proxy") =>
            Len(fetches) = 2
       /\ calls[c].pc = "proxy" => (Len(fetches) = 1 /\ FetchFailed(fetches[1]))

\* A call whose direct fetch was answered with a non-success status has got
\* the artifact through the proxy and returned.
C11_Witness ==
  \E c \in DOMAIN calls :
    /\ calls[c].pc = "returned"
    /\ calls[c].fetches = <<Fetch("direct", "notok"), Fetch("proxy", "ok")>>

\* C12: a call of fetchAudioBuffer on a reference that has a cache entry
\* returns that entry at once, makes no fetch, no decode and no probe, reports
\* nothing and leaves the cache as it was; a call that has returned does
\* nothing more.
C12_CacheHitDoesNoIO ==
  [][/\ \A c \in DOMAIN calls' \ DOMAIN calls :
          audioCache[calls'[c].url] # <<>> =>
            /\ calls'[c].pc = "returned"
            /\ calls'[c].result = audioCache[calls'[c].url]
            /\ calls'[c].fetches = <<>>
            /\ calls'[c].error = "none"
            /\ calls'[c].head = "none"
            /\ audioCache' = audioCache
            /\ lastToast' = lastToast
     /\ \A c \in DOMAIN calls :
          calls[c].pc = "returned" =>
            (calls'[c] = calls[c] \/ calls'[c] = Awaited(calls[c]))
    ]_vars

\* A call has returned the decoded data of the cache without any fetch.
C12_Witness ==
  \E c \in DOMAIN calls :
    /\ calls[c].pc = "returned"
    /\ calls[c].fetches = <<>>
    /\ calls[c].head = "none"
    /\ calls[c].result = <<Decoded(calls[c].url)>>
    /\ audioCache[calls[c].url] = calls[c].result

\* C13: when the resolution step of a generation request does not obtain the
\* visualization data of the artifact (the artifact was unreachable), the
\* request sets up one retry of the resolution step.
C13_FailedResolutionIsRetried ==
  [][\A r \in DOMAIN requests :
       (Completes(r)
          /\ calls[requests[r].call].result = <<UnreachablePlaceholder>>) =>
         requests'[r].retry
    ]_vars

\* C14: whatever the direct fetch, the proxy fetch, the decoding and the
\* probe do, a generation request that got an artifact reference from the
\* backend is never failed: it can always take its next step until it has
\* completed, and its completion leaves its segment last in the context that
\* was active for it.
C14_DegradationNeverAborts ==
  /\ [](\A r \in DOMAIN requests :
          /\ requests[r].pc = "ValidatingArtifact" => ENABLED ValidateArtifact(r)
          /\ requests[r].pc = "ResolvingAudio" =>
               \/ ENABLED CompleteGeneration(r)
               \/ ENABLED (\/ CallDirect(requests[r].call)
                           \/ CallProxy(requests[r].call)
                           \/ CallDecode(requests[r].call)
                           \/ CallProbe(requests[r].call)))
  /\ [][\A r \in DOMAIN requests :
          requests[r].pc \in {"ValidatingArtifact", "ResolvingAudio"} =>
            /\ requests'[r].pc \in
                 {"ValidatingArtifact", "ResolvingAudio", "Complete"}
            /\ (Completes(r) /\ requests[r].activeContext # <<>>) =>
                 LET segments ==
                       SegmentsOf(contexts', requests[r].activeContext[1].name)
                 IN /\ segments # <<>>
                    /\ segments[Len(segments)].audioPath =
                         requests[r].generatedAudioUrl
       ]_vars

\* A request has completed on the unreachable placeholder, and its segment is
\* the last of the active context.
C14_Witness ==
  /\ \E r \in DOMAIN requests : requests[r].pc = "Complete"
  /\ audioData = <<UnreachablePlaceholder>>
  /\ activeContext # <<>>
  /\ activeContext[1].segments # <<>>
  /\ activeContext[1].segments[Len(activeContext[1].segments)].audioPath
       \in {<<u>> : u \in AudioUrls}

\* C15: whatever filename the proxied retrieval path is given, the path the
\* endpoint opens is the artifact directory public/audio followed by one
\* segment of the filename at most; it is never the parent of that directory
\* nor any path outside it.
C15_PathStaysInAudioDir ==
  filePath # <<>> =>
    /\ IsPrefix(AudioDir, filePath[1])
    /\ Len(filePath[1]) <= Len(AudioDir) + 1

NamesOf(ctxs) == {ctxs[i].name : i \in DOMAIN ctxs}

\* C16: createContext with a name that a stored context already has reports
\* an error and changes nothing: the list of contexts with their segments and
\* the active context are as before.
C16_DuplicateNameRejected ==
  [][\A name \in Names :
       (name \in NamesOf(contexts) /\ CreateContext(name)) =>
         /\ lastToast' = "error"
         /\ contexts' = contexts
         /\ activeContext' = activeContext
    ]_vars

\* An error has been reported with no generation request made, while both
\* names are taken, one context holds a segment and a context is active: a
\* creation under either name is a duplicate.
C16_Witness ==
  /\ lastToast = "error"
  /\ requests = <<>>
  /\ NamesOf(contexts) = Names
  /\ \E i \in DOMAIN contexts : contexts[i].segments # <<>>
  /\ activeContext # <<>>
  /\ \A name \in Names : ENABLED (CreateContext(name) /\ contexts' = contexts)

\* C17: in every reachable state, whatever creations, deletions, activations,
\* ingestions and generations led to it and in whatever order their
\* completions arrived, no two stored contexts have the same name.
C17_ContextNamesUnique ==
  \A i \in DOMAIN contexts, j \in DOMAIN contexts :
    contexts[i].name = contexts[j].name => i = j

\* Two contexts are stored after a generation request has completed, and one
\* of them holds the segment of a generated artifact.
C17_Witness ==
  /\ \E r \in DOMAIN requests : requests[r].pc = "Complete"
  /\ Len(contexts) = 2
  /\ \E i \in DOMAIN contexts :
       \E k \in DOMAIN contexts[i].segments :
         contexts[i].segments[k].audioPath \in {<<u>> : u \in AudioUrls}

\* C18: deleteContext(name) leaves the store without a context of that name
\* and with every other context as it was, in order; the active context
\* becomes empty when it was the one named and is unchanged otherwise; and
\* when no stored context has the name, neither the store nor the active
\* context changes.
C18_DeleteContext ==
  [][\A name \in Names :
       DeleteContext(name) =>
         /\ name \notin NamesOf(contexts')
         /\ contexts' = SelectSeq(contexts, LAMBDA ctx : ctx.name # name)
         /\ IF activeContext # <<>> /\ activeContext[1].name = name
            THEN activeContext' = <<>>
            ELSE activeContext' = activeContext
         /\ name \notin NamesOf(contexts) =>
              (contexts' = contexts /\ activeContext' = activeContext)
    ]_vars

\* The active context has been deleted while another context, holding a
\* segment, stays in the store: the active context is empty, the store is not.
C18_Witness ==
  /\ activeContext = <<>>
  /\ Len(contexts) = 1
  /\ contexts[1].segments # <<>>
  /\ lastToast = "success"

Persisted == IF stored = <<>> THEN <<>> ELSE stored[1]

\* C20: after every mutation of the context store (creation, deletion,
\* ingestion, completion of a generation), one that empties the store
\* included, the contexts persisted under csm-contexts are the contexts in
\* memory reduced to their name and their segments' speaker, text and
\* audioPath, in order.
C20_WrittenThrough == Persisted = JsonStringify(Storable(contexts))

\* C27: generateSpeech on an input text that is empty or only spaces reports
\* an error and does nothing else: no request to the backend is made, the
\* processing flag stays off and the contexts and the active context are as
\* before; and no request awaiting the backend carries a blank text.
C27_BlankInputRejected ==
  /\ [][(Trim(inputText) = <<>> /\ GenerateSpeech) =>
          /\ lastToast' = "error"
          /\ requests' = requests
          /\ isProcessing' = isProcessing
          /\ ~isProcessing'
          /\ contexts' = contexts
          /\ activeContext' = activeContext
       ]_vars
  /\ [](\A r \in DOMAIN requests :
          requests[r].pc = "AwaitingBackend" =>
            Trim(requests[r].body.text) # <<>>)

\* The input text is a space, an error has been reported, no request was
\* ever made and the active context holds a segment.
C27_Witness ==
  /\ inputText = <<" ">>
  /\ lastToast = "error"
  /\ requests = <<>>
  /\ ~isProcessing
  /\ activeContext # <<>>
  /\ activeContext[1].segments # <<>>
  /\ ENABLED GenerateSpeech

\* C28: the context sent to /api/generate has one entry per segment of the
\* context that is active when generateSpeech is called, in the segments'
\* order, each entry made of the segment's text, speaker and audio reference
\* and of nothing else, the decoded audio in particular; with no active
\* context it is empty.
C28_PayloadIsActiveContext ==
  [][Len(requests') = Len(requests) + 1 =>
       LET context == requests'[Len(requests')].body.context
       IN IF activeContext = <<>>
          THEN context = <<>>
          ELSE /\ Len(context) = Len(activeContext[1].segments)
               /\ \A i \in DOMAIN context :
                    /\ DOMAIN context[i] = {"text", "speaker", "audioPath"}
                    /\ context[i].text = activeContext[1].segments[i].text
                    /\ context[i].speaker = activeContext[1].segments[i].speaker
                    /\ context[i].audioPath =
                         activeContext[1].segments[i].audioPath
    ]_vars

\* A request awaits the backend with a context of two entries, the first for
\* an ingested clip that had been decoded, the second for a generated
\* artifact.
C28_Witness ==
  \E r \in DOMAIN requests :
    /\ requests[r].pc = "AwaitingBackend"
    /\ Len(requests[r].body.context) = 2
    /\ requests[r].body.context[1].audioPath = <<BlobUrl(1)>>
    /\ requests[r].body.context[2].audioPath \in {<<u>> : u \in AudioUrls}
    /\ requests[r].activeContext[1].segments[1].audio # <<>>

\* C23: once a session has been loaded and the effects of the load have run,
\* the input text, the speaker, the maximum audio length, the temperature and
\* the top-K are the ones stored in the session.
C23_LoadRestoresSettings ==
  [][\A i \in DOMAIN savedSessions :
       LoadSession(savedSessions[i]) =>
         /\ inputText' = savedSessions[i].inputText
         /\ selectedSpeaker' = savedSessions[i].selectedSpeaker
         /\ maxAudioLength' = savedSessions[i].maxAudioLength
         /\ temperature' = savedSessions[i].temperature
         /\ topK' = savedSessions[i].topK
    ]_vars

\* C24: loading a session reports no error and restores the settings; when
\* the session names no context, or a context that the store does not hold,
\* the active context is left exactly as it was; when it names a stored
\* context, that context becomes the active one.
C24_LoadResolvesContext ==
  [][\A i \in DOMAIN savedSessions :
       LoadSession(savedSessions[i]) =>
         LET session == savedSessions[i]
         IN /\ lastToast' # "error"
            /\ inputText' = session.inputText
            /\ selectedSpeaker' = session.selectedSpeaker
            /\ maxAudioLength' = session.maxAudioLength
            /\ temperature' = session.temperature
            /\ topK' = session.topK
            /\ IF /\ session.contextName # <<>>
                  /\ session.contextName[1] \in NamesOf(contexts)
               THEN /\ activeContext' # <<>>
                    /\ activeContext'[1].name = session.contextName[1]
                    /\ activeContext' = FindContext(contexts, session.contextName[1])
               ELSE activeContext' = activeContext
    ]_vars

\* ctxs with the decoded audio of every segment taken away.
WithoutAudio(ctxs) ==
  [i \in DOMAIN ctxs |->
     [name |-> ctxs[i].name,
      segments |-> [j \in DOMAIN ctxs[i].segments |->
                      [ctxs[i].segments[j] EXCEPT !.audio = <<>>]]]]

\* C21: what storeContexts writes holds no sample data, and loading it back
\* gives the contexts that were stored, with their names, the order of their
\* segments and each segment's speaker, text and audio reference, and with no
\* decoded audio on any segment; a reload of the page shows exactly that.
C21_StoreLoadRoundTrip ==
  [][/\ (stored' # stored) =>
          /\ \A i \in DOMAIN stored'[1] :
               \A j \in DOMAIN stored'[1][i].segments :
                 "audio" \notin DOMAIN stored'[1][i].segments[j]
          /\ LoadedContexts(stored'[1]) = WithoutAudio(contexts')
     /\ (Reload /\ stored # <<>>) =>
          /\ contexts' = LoadedContexts(stored[1])
          /\ \A i \in DOMAIN contexts' :
               \A j \in DOMAIN contexts'[i].segments :
                 contexts'[i].segments[j].audio = <<>>
          /\ stored' = stored
    ]_vars

\* The page has been loaded again (no toast is shown, yet a context exists)
\* on a stored context with the segment of an ingested clip: the segment is
\* back with its audio reference and without audio.
C21_Witness ==
  /\ lastToast = NoReport
  /\ contexts # <<>>
  /\ contexts[1].segments # <<>>
  /\ contexts[1].segments[1].audioPath = <<BlobUrl(1)>>
  /\ contexts[1].segments[1].audio = <<>>
  /\ stored # <<>>
  /\ LoadedContexts(stored[1]) = contexts

C25_SaveAppendsSnapshot ==
  [][\A t \in Times :
       /\ SaveCurrentSession("", t) =>
            /\ savedSessions' = savedSessions
            /\ storedSessions' = storedSessions
            /\ lastToast' = "error"
       /\ \A sessionName \in SessionNames :
            SaveCurrentSession(sessionName, t) =>
              LET n == Len(savedSessions)
              IN /\ Len(savedSessions') = n + 1
                 /\ SubSeq(savedSessions', 1, n) = savedSessions
                 /\ savedSessions'[n + 1].name = sessionName
                 /\ savedSessions'[n + 1].inputText = inputText
                 /\ savedSessions'[n + 1].selectedSpeaker = selectedSpeaker
                 /\ savedSessions'[n + 1].maxAudioLength = maxAudioLength
                 /\ savedSessions'[n + 1].temperature = temperature
                 /\ savedSessions'[n + 1].topK = topK
                 /\ savedSessions'[n + 1].contextName =
                      IF activeContext = <<>> THEN <<>>
                      ELSE <<activeContext[1].name>>
    ]_vars

\* Two sessions of the same name are in the list, the first saved with no
\* active context, the second with another speaker and context A active.
C25_Witness ==
  /\ Len(savedSessions) = 2
  /\ savedSessions[1].name = savedSessions[2].name
  /\ savedSessions[1].contextName = <<>>
  /\ savedSessions[2].contextName = <<"A">>
  /\ savedSessions[1].selectedSpeaker # savedSessions[2].selectedSpeaker
  /\ lastToast = "success"

SessionsUnchanged ==
  savedSessions' = savedSessions /\ storedSessions' = storedSessions

ContextsUnchanged == contexts' = contexts /\ stored' = stored

\* C26: creating a context, deleting one (even one that a session names),
\* adding a segment to one, and changing a setting leave the sessions, in
\* memory and stored, exactly as they were; saving, loading and deleting a
\* session leave the contexts and their segments, in memory and stored,
\* exactly as they were.  That is: a step that changes the sessions is a save
\* or a deletion of a session (or a reload of the page), and a step that
\* changes the contexts is not a save, a load or a deletion of a session.
C26_SessionsAndContextsApart ==
  [][/\ ~SessionsUnchanged =>
          \/ Reload
          \/ \E sessionName \in SessionNames, t \in Times :
               SaveCurrentSession(sessionName, t)
          \/ \E i \in DOMAIN savedSessions : DeleteSession(savedSessions[i].id)
     /\ ~ContextsUnchanged =>
          /\ ~\E sessionName \in SessionNameInputs, t \in Times :
                SaveCurrentSession(sessionName, t)
          /\ ~\E i \in DOMAIN savedSessions :
                \/ LoadSession(savedSessions[i])
                \/ DeleteSession(savedSessions[i].id)
    ]_vars

\* Context A has been deleted after a session was saved on it and after it
\* had got a segment: the session, in memory and stored, still names A.
C26_Witness ==
  /\ contexts = <<>>
  /\ stored # <<>>
  /\ stored[1][1].segments # <<>>
  /\ savedSessions # <<>>
  /\ savedSessions[1].contextName = <<"A">>
  /\ storedSessions = <<savedSessions>>

\* The clips whose transcription came back as a failure: the fetch rejected,
\* the status was not ok, the body did not parse, or it had an error member.
FailedResponse(response) ==
  \/ response.rejected
  \/ ~response.ok
  \/ ~response.parses
  \/ response.error

AllSegments(ctxs) ==
  UNION {{ctxs[i].segments[j] : j \in DOMAIN ctxs[i].segments} : i \in DOMAIN ctxs}

\* Some context of the list has gained a segment in this step.
SegmentAppended ==
  \E i \in DOMAIN contexts' :
    /\ i \in DOMAIN contexts
    /\ contexts'[i].name = contexts[i].name
    /\ Len(contexts'[i].segments) > Len(contexts[i].segments)

C31_SessionIdsUnique ==
  /\ [](/\ \A i, j \in DOMAIN savedSessions :
             savedSessions[i].id = savedSessions[j].id => i = j
        /\ \A k \in DOMAIN storedSessions :
             \A i, j \in DOMAIN storedSessions[k] :
               storedSessions[k][i].id = storedSessions[k][j].id => i = j)
  /\ [][\A i \in DOMAIN savedSessions :
          DeleteSession(savedSessions[i].id) =>
            savedSessions' = [n \in 1..(Len(savedSessions) - 1) |->
                                IF n < i THEN savedSessions[n]
                                ELSE savedSessions[n + 1]]
       ]_vars

\* C32: whenever there is an active context, the list of contexts holds a
\* context with its name, and that context has the same segments as the
\* active one: the active view is neither dangling nor stale.
C32_ActiveViewInStore ==
  activeContext # <<>> =>
    \E i \in DOMAIN contexts :
      /\ contexts[i].name = activeContext[1].name
      /\ contexts[i].segments = activeContext[1].segments

\* A generation has completed, a session has been saved, two contexts exist
\* and the active one holds an ingested and a generated segment.
C32_Witness ==
  /\ requests # <<>>
  /\ requests[1].pc = "Complete"
  /\ savedSessions # <<>>
  /\ Len(contexts) = 2
  /\ activeContext # <<>>
  /\ Len(activeContext[1].segments) = 2
  /\ activeContext[1].segments[1].audioPath # activeContext[1].segments[2].audioPath

\* C33: the completion of a generation request keeps what was done to the
\* list of contexts while it was in flight: every context that is in the list
\* just before the completion (so one created during the flight) is in it
\* afterwards, and no context that is absent just before the completion (so
\* one deleted during the flight, the one active at the click included) is in
\* it afterwards.
C33_StoreOpsSurviveCompletion ==
  [][\A r \in DOMAIN requests :
       Completes(r) => NamesOf(contexts') = NamesOf(contexts)
    ]_vars

\* C34: the completion of a generation request leaves the choice of active
\* context as the user last made it: the same name is active after the
\* completion as before it, and none is active if none was.
C34_CompletionKeepsActiveChoice ==
  [][\A r \in DOMAIN requests :
       Completes(r) =>
         /\ activeContext = <<>> <=> activeContext' = <<>>
         /\ activeContext # <<>> =>
              activeContext'[1].name = activeContext[1].name
    ]_vars

\* C35: isProcessing is true as long as an invocation of generateSpeech is in
\* flight, and, every answer arriving, it always becomes false again, which
\* enables the Generate Speech button.
C35_ProcessingFlagIsReleased ==
  /\ []((\E r \in DOMAIN requests : InFlight(r)) => isProcessing)
  /\ (isProcessing ~> (~isProcessing /\ ~GenerateDisabled))

\* A second invocation is in flight after the first one failed.
C35_Witness ==
  /\ Len(requests) = 2
  /\ requests[1].pc = "Errored"
  /\ InFlight(2)
  /\ isProcessing

\* C36: for one artifact reference the playback loader calls load() at most
\* three times (direct url, proxied url, one blob) and fetches the blob at
\* most once; and one call of fetchAudioBuffer makes at most one direct fetch
\* and one proxied fetch.
C36_FallbackChainsBounded ==
  /\ player # <<>> => (player[1].loads <= 3 /\ player[1].fetches <= 1)
  /\ \A c \in DOMAIN calls :
       /\ Len(calls[c].fetches) <= 2
       /\ \A i, j \in DOMAIN calls[c].fetches :
            calls[c].fetches[i].path = calls[c].fetches[j].path => i = j

\* C37: once a reference has an entry in the audio cache, every later step
\* leaves that entry as it is: it is neither replaced nor removed.
C37_CacheWriteOnce ==
  [][\A u \in AudioUrls :
       audioCache[u] # <<>> => audioCache'[u] = audioCache[u]
    ]_vars

\* A second call on a reference has returned the entry the first call wrote.
C37_Witness ==
  /\ Len(calls) = 2
  /\ calls[1].url = calls[2].url
  /\ calls[2].pc = "returned"
  /\ calls[2].fetches = <<>>
  /\ audioCache[calls[1].url] # <<>>
  /\ calls[2].result = audioCache[calls[1].url]

\* C38: once the page has settled after a session was saved or loaded, the
\* current-session label holds that session's name; and a label that is set
\* is cleared only by a change of the text, the speaker, the maximum audio
\* length, the temperature or top-K, or by a submitted generation.
C38_SessionLabelPersists ==
  [][/\ \A sessionName \in SessionNames, t \in Times :
          SaveCurrentSession(sessionName, t) =>
            currentSessionName' = <<sessionName>>
     /\ \A i \in DOMAIN savedSessions :
          LoadSession(savedSessions[i]) =>
            currentSessionName' = <<savedSessions[i].name>>
     /\ (currentSessionName # <<>> /\ currentSessionName' # currentSessionName) =>
          \/ \E newText \in Texts : SetInputText(newText)
          \/ \E speaker \in Speakers : SetSelectedSpeaker(speaker)
          \/ \E length \in MaxAudioLengths : SetMaxAudioLength(length)
          \/ \E temp \in Temperatures : SetTemperature(temp)
          \/ \E topk \in TopKs : SetTopK(topk)
          \/ GenerateSpeech
          \/ \E sessionName \in SessionNames, t \in Times :
               SaveCurrentSession(sessionName, t)
          \/ \E i \in DOMAIN savedSessions : LoadSession(savedSessions[i])
    ]_vars

====
